---- MODULE Spec2Model ----
(***************************************************************************)
(* A model of the WorkHoursNormalizer attendance pipeline: the record      *)
(* parser (src/src/attendance_parser.py) and the variation generator       *)
(* (src/src/data_generator.py).                                            *)
(*                                                                         *)
(* Representation.                                                         *)
(*   Optional values: None is <<>>, a present value x is <<x>>.            *)
(*   A time string matched by \d{1,2}:\d{2} is [w, h, m]: the number of    *)
(*   hour digits, the hour value and the minute value ("8:05" is           *)
(*   [w |-> 1, h |-> 8, m |-> 5], "99:99" is [w |-> 2, h |-> 99, m |-> 99])*)
(*   A datetime is the number of minutes since 1900-01-01 00:00 (the day   *)
(*   strptime("%H:%M") puts every time on); it may be negative or exceed   *)
(*   one day after a timedelta is added.                                   *)
(*   Hours, rates and salaries are integers in hundredths (8.50 is 850).   *)
(*   Python objects live in a heap (object id -> object), so that what a   *)
(*   copy shares with its original is part of the model.                   *)
(***************************************************************************)
EXTENDS Integers, Sequences, FiniteSets, TLC

\* ---------------------------------------------------------------- bounds
MaxRecords == 2

\* ------------------------------------------------------- optional values
None == <<>>
Some(x) == <<x>>
Val(o) == o[1]
\* Python truthiness of an optional string the parser produced (never "").
TruthyStr(o) == o # None
\* Python truthiness of an optional float: None and 0.0 are both falsy.
TruthyNum(o) == o # None /\ o[1] # 0

HasAttr(obj, f) == f \in DOMAIN obj

\* ------------------------------------------------------------- time text
T(w, h, m) == [w |-> w, h |-> h, m |-> m]

MinutesPerDay == 1440

\* datetime.strptime(s, "%H:%M"): the datetime, or None for ValueError.
strptime(s) ==
    IF s.h <= 23 /\ s.m <= 59 THEN Some(s.h * 60 + s.m) ELSE None

\* dt.hour * 60 + dt.minute of a datetime.
HourMinute(dt) == dt % MinutesPerDay

\* dt.strftime("%H:%M"): always two hour digits.
strftime(dt) ==
    [w |-> 2, h |-> HourMinute(dt) \div 60, m |-> HourMinute(dt) % 60]

\* --------------------------------------------------- generator: config
MINIMAL == "minimal"
MODERATE == "moderate"
SIGNIFICANT == "significant"

TIME_VARIATIONS ==
    [minimal |-> [start_minutes |-> 5, end_minutes |-> 5, break_minutes |-> 2],
     moderate |-> [start_minutes |-> 15, end_minutes |-> 15, break_minutes |-> 5],
     significant |-> [start_minutes |-> 30, end_minutes |-> 30, break_minutes |-> 10]]

\* A plausible slip: the fallback names the first table entry.
ConfigForFallsToMinimal(variation_level) ==
    IF variation_level \in DOMAIN TIME_VARIATIONS
    THEN TIME_VARIATIONS[variation_level]
    ELSE TIME_VARIATIONS[MINIMAL]

\* TIME_VARIATIONS.get(variation_level, TIME_VARIATIONS[MODERATE])
ConfigFor(variation_level) ==
    IF variation_level \in DOMAIN TIME_VARIATIONS
    THEN TIME_VARIATIONS[variation_level]
    ELSE TIME_VARIATIONS[MODERATE]

\* AttendanceVariationGenerator.__init__
NewGenerator(variation_level) ==
    [variation_level |-> variation_level, config |-> ConfigFor(variation_level)]

\* ------------------------------------------- generator: time arithmetic
\* The clamp of _vary_time: a varied time whose hour and minute fall
\* outside [earliest, latest] is replaced by the bound it passed.
Clamp(varied_time, earliest_obj, latest_obj) ==
    IF HourMinute(varied_time) < earliest_obj THEN strftime(earliest_obj)
    ELSE IF HourMinute(varied_time) > latest_obj THEN strftime(latest_obj)
    ELSE strftime(varied_time)

\* _vary_time with the drawn variation passed in.  Any strptime failure
\* (time_str, earliest or latest) is caught and time_str returned as is.
VaryTime(time_str, variation, earliest, latest) ==
    IF strptime(time_str) = None \/ strptime(earliest) = None
       \/ strptime(latest) = None
    THEN time_str
    ELSE Clamp(Val(strptime(time_str)) + variation,
               Val(strptime(earliest)), Val(strptime(latest)))

\* A plausible slip: the varied break is kept whatever its hour.
VaryBreakTimeUnlimited(break_time, variation) ==
    IF strptime(break_time) = None THEN break_time
    ELSE strftime(Val(strptime(break_time)) + variation)

\* _vary_break_time with the drawn variation passed in.
VaryBreakTime(break_time, variation) ==
    LET t == strptime(break_time)
    IN  IF t = None THEN break_time
        ELSE LET varied == Val(t) + variation
             IN  IF HourMinute(varied) \div 60 > 2 THEN strftime(Val(t))
                 ELSE strftime(varied)

\* _time_to_hours, in minutes (hour + minute / 60.0 hours); 0.0 on failure.
TimeToMinutes(time_str) ==
    LET t == strptime(time_str) IN IF t = None THEN 0 ELSE Val(t)

\* round(minutes / 60, 2) in hundredths of an hour.  5n/3 has fractional
\* part 0, 1/3 or 2/3, so no value lies on a rounding tie.
RoundHours(minutes) == (10 * minutes + 3) \div 6

Max(a, b) == IF a >= b THEN a ELSE b

\* A slip: only an end earlier than the start is moved to the next day.
CalculateHoursEndStrictlyEarlier(start, end, break_minutes) ==
    LET s == strptime(start)
        e == strptime(end)
    IN  IF s = None \/ e = None THEN 0
        ELSE LET end_obj == IF Val(e) < Val(s) THEN Val(e) + MinutesPerDay
                            ELSE Val(e)
                 duration == end_obj - Val(s)
             IN  RoundHours(Max(0, duration - break_minutes))

\* _calculate_hours, break given in minutes; 0.0 when a time does not parse.
CalculateHours(start, end, break_minutes) ==
    LET s == strptime(start)
        e == strptime(end)
    IN  IF s = None \/ e = None THEN 0
        ELSE LET end_obj == IF Val(e) <= Val(s) THEN Val(e) + MinutesPerDay
                            ELSE Val(e)
                 duration == end_obj - Val(s)
             IN  RoundHours(Max(0, duration - break_minutes))

\* A plausible slip: the top tier starts from the 10-hour break point of
\* the other tier table while the lower tiers use 9 and 2.
RecalculatePercentagesMixedTiers(record) ==
    LET total == IF TruthyNum(record.total) THEN Val(record.total) ELSE 0
    IN  IF total <= 900
        THEN [record EXCEPT !.hours_100 = Some(total),
                            !.hours_125 = Some(0),
                            !.hours_150 = Some(0)]
        ELSE IF total <= 1100
        THEN [record EXCEPT !.hours_100 = Some(900),
                            !.hours_125 = Some(total - 900),
                            !.hours_150 = Some(0)]
        ELSE [record EXCEPT !.hours_100 = Some(900),
                            !.hours_125 = Some(200),
                            !.hours_150 = Some(total - 1000)]

\* A plausible slip: the break points of the other tier table, 8 and 10
\* hours.
RecalculatePercentagesAt8And10(record) ==
    LET total == IF TruthyNum(record.total) THEN Val(record.total) ELSE 0
    IN  IF total <= 800
        THEN [record EXCEPT !.hours_100 = Some(total),
                            !.hours_125 = Some(0),
                            !.hours_150 = Some(0)]
        ELSE IF total <= 1000
        THEN [record EXCEPT !.hours_100 = Some(800),
                            !.hours_125 = Some(total - 800),
                            !.hours_150 = Some(0)]
        ELSE [record EXCEPT !.hours_100 = Some(800),
                            !.hours_125 = Some(200),
                            !.hours_150 = Some(total - 1000)]

\* _recalculate_percentages: thresholds 9 and 11 hours.
RecalculatePercentages(record) ==
    LET total == IF TruthyNum(record.total) THEN Val(record.total) ELSE 0
    IN  IF total <= 900
        THEN [record EXCEPT !.hours_100 = Some(total),
                            !.hours_125 = Some(0),
                            !.hours_150 = Some(0)]
        ELSE IF total <= 1100
        THEN [record EXCEPT !.hours_100 = Some(900),
                            !.hours_125 = Some(total - 900),
                            !.hours_150 = Some(0)]
        ELSE [record EXCEPT !.hours_100 = Some(900),
                            !.hours_125 = Some(200),
                            !.hours_150 = Some(total - 1100)]

EARLIEST_START == T(2, 6, 0)
LATEST_START == T(2, 10, 0)
DEFAULT_EARLIEST_END == T(2, 14, 0)
LATEST_END == T(2, 23, 0)

\* _vary_record, the start time: varied when it is a non-empty string.
VaryStart(varied, ds) ==
    IF TruthyStr(varied.start_time)
    THEN [varied EXCEPT !.start_time =
             Some(VaryTime(Val(varied.start_time), ds,
                           EARLIEST_START, LATEST_START))]
    ELSE varied

\* _vary_record, the end time: its earliest bound is the varied start.
VaryEnd(varied, de) ==
    IF TruthyStr(varied.end_time)
    THEN [varied EXCEPT !.end_time =
             Some(VaryTime(Val(varied.end_time), de,
                           IF TruthyStr(varied.start_time)
                           THEN Val(varied.start_time)
                           ELSE DEFAULT_EARLIEST_END,
                           LATEST_END))]
    ELSE varied

\* _vary_record, the break time of a record that has one.
VaryBreak(varied, db) ==
    IF HasAttr(varied, "break_time") /\ TruthyStr(varied.break_time)
    THEN [varied EXCEPT !.break_time =
             Some(VaryBreakTime(Val(varied.break_time), db))]
    ELSE varied

\* break_hours of _vary_record, in minutes.
BreakMinutes(varied) ==
    IF HasAttr(varied, "break_time") /\ TruthyStr(varied.break_time)
    THEN TimeToMinutes(Val(varied.break_time))
    ELSE 0

\* if hasattr(varied, 'hours_100'): self._recalculate_percentages(varied)
WithPercentages(varied) ==
    IF HasAttr(varied, "hours_100") THEN RecalculatePercentages(varied)
    ELSE varied

\* _vary_record, the hours: recomputed whenever start and end are
\* non-empty strings.
RecalculateHours(varied, total_hours) ==
    IF TruthyStr(varied.start_time) /\ TruthyStr(varied.end_time)
    THEN WithPercentages([varied EXCEPT !.hours = Some(total_hours),
                                        !.total = Some(total_hours)])
    ELSE varied

\* The hours _calculate_hours gives for the record's times and break.
TotalHours(varied) ==
    IF TruthyStr(varied.start_time) /\ TruthyStr(varied.end_time)
    THEN CalculateHours(Val(varied.start_time), Val(varied.end_time),
                        BreakMinutes(varied))
    ELSE 0

\* The last step of _vary_record.
WithHours(varied) == RecalculateHours(varied, TotalHours(varied))

\* _vary_record on the value of a (copied) record, the three draws passed
\* in: ds, de, db are the results of the randint calls that are made.
VaryRecord(record, config, ds, de, db) ==
    WithHours(VaryBreak(VaryEnd(VaryStart(record, ds), de), db))

\* The calls of random.randint that _vary_record makes for a record: one
\* per time that gets past strptime(time_str), in the order start, end,
\* break.
Parses(time) == TruthyStr(time) /\ strptime(Val(time)) # None

DrawsStart(record) == Parses(record.start_time)
DrawsEnd(record) == Parses(record.end_time)
DrawsBreak(record) == HasAttr(record, "break_time") /\ Parses(record.break_time)

\* Every result random.randint(-j, j) can give.
RandintRange(j) == (0 - j)..j

\* The triples <<ds, de, db>> the draws for one record can be (0 stands
\* for a draw that is not made).
DrawTriples(record, config) ==
    (IF DrawsStart(record) THEN RandintRange(config.start_minutes) ELSE {0})
    \X (IF DrawsEnd(record) THEN RandintRange(config.end_minutes) ELSE {0})
    \X (IF DrawsBreak(record) THEN RandintRange(config.break_minutes) ELSE {0})

\* A plausible slip: a record whose start time does not parse is skipped
\* instead of being carried through.
RECURSIVE VariedRecordsSkipping(_, _, _)
VariedRecordsSkipping(recs, config, draws) ==
    IF recs = <<>> THEN <<>>
    ELSE (IF DrawsStart(Head(recs))
          THEN <<VaryRecord(Head(recs), config,
                            Head(draws)[1], Head(draws)[2], Head(draws)[3])>>
          ELSE <<>>)
         \o VariedRecordsSkipping(Tail(recs), config, Tail(draws))

\* The loop of generate_variation: [_vary_record(r) for r in records],
\* draws[i] being the draws made for record i.
RECURSIVE VariedRecords(_, _, _)
VariedRecords(recs, config, draws) ==
    IF recs = <<>> THEN <<>>
    ELSE <<VaryRecord(Head(recs), config,
                      Head(draws)[1], Head(draws)[2], Head(draws)[3])>>
         \o VariedRecords(Tail(recs), config, Tail(draws))

\* The module-level generator of `random`, as a stream of outcomes that
\* repeats: each randint call takes stream[pos] and moves on.  An outcome
\* is -1 (the lowest result), 0 (the middle one) or 1 (the highest).
Randint(j, outcome) == outcome * j

StreamAt(rs, k) == rs.stream[((rs.pos + k) % Len(rs.stream)) + 1]

Advance(rs, k) == [rs EXCEPT !.pos = (rs.pos + k) % Len(rs.stream)]

Count(b) == IF b THEN 1 ELSE 0

\* The draws one record takes from the generator in state rs.
DrawsFrom(record, config, rs) ==
    LET ks == Count(DrawsStart(record))
        ke == Count(DrawsEnd(record))
    IN  <<IF DrawsStart(record)
          THEN Randint(config.start_minutes, StreamAt(rs, 0)) ELSE 0,
          IF DrawsEnd(record)
          THEN Randint(config.end_minutes, StreamAt(rs, ks)) ELSE 0,
          IF DrawsBreak(record)
          THEN Randint(config.break_minutes, StreamAt(rs, ks + ke)) ELSE 0>>

DrawCount(record) ==
    Count(DrawsStart(record)) + Count(DrawsEnd(record)) + Count(DrawsBreak(record))

\* The draws the records take in turn, and the generator state afterwards.
RECURSIVE DrawAll(_, _, _)
DrawAll(recs, config, rs) ==
    IF recs = <<>> THEN [draws |-> <<>>, rs |-> rs]
    ELSE LET rest == DrawAll(Tail(recs), config, Advance(rs, DrawCount(Head(recs))))
         IN  [draws |-> <<DrawsFrom(Head(recs), config, rs)>> \o rest.draws,
              rs |-> rest.rs]

\* ------------------------------------------------------------------ heap
\* The smallest object id not in use.
FreshRef(h) ==
    CHOOSE r \in 1..(Cardinality(DOMAIN h) + 1) :
        r \notin DOMAIN h /\ \A s \in 1..(r - 1) : s \in DOMAIN h

Alloc(h, obj) ==
    LET r == FreshRef(h) IN [heap |-> h @@ (r :> obj), ref |-> r]

RECURSIVE AllocSeq(_, _)
AllocSeq(h, objs) ==
    IF objs = <<>> THEN [heap |-> h, refs |-> <<>>]
    ELSE LET a == Alloc(h, Head(objs))
             rest == AllocSeq(a.heap, Tail(objs))
         IN  [heap |-> rest.heap, refs |-> <<a.ref>> \o rest.refs]

\* The objects a list of ids names, in list order.
RECURSIVE Deref(_, _)
Deref(h, refs) ==
    IF refs = <<>> THEN <<>> ELSE <<h[Head(refs)]>> \o Deref(h, Tail(refs))

\* The records of a report object, as values, in list order.
RecordValues(h, ref) == Deref(h, h[ref].records)

\* Everything a report holds, by value.
ReportValue(h, ref) ==
    [metadata |-> h[h[ref].metadata],
     records |-> RecordValues(h, ref),
     template_type |-> h[ref].template_type,
     raw_text |-> h[ref].raw_text]

\* copy.copy in place of deepcopy: a new report object that shares the
\* metadata object and the record list with the original.
ShallowCopyReport(h, ref) == Alloc(h, h[ref])

\* deepcopy(parsed_report): new report, metadata and record objects.
DeepCopyReport(h, ref) ==
    LET a == AllocSeq(h, <<h[h[ref].metadata]>> \o RecordValues(h, ref))
    IN  Alloc(a.heap, [h[ref] EXCEPT !.metadata = Head(a.refs),
                                     !.records = Tail(a.refs)])

\* The objects reachable from the report objects in roots.
Reachable(h, roots) ==
    roots \cup { h[r].metadata : r \in roots }
          \cup UNION { { h[r].records[i] : i \in 1..Len(h[r].records) } : r \in roots }

\* Reference counting frees what no variable reaches.
Collect(h, roots) == [r \in Reachable(h, roots) |-> h[r]]

RECURSIVE SumHours(_)
SumHours(recs) ==
    IF recs = <<>> THEN 0
    ELSE (IF TruthyNum(Head(recs).hours) THEN Val(Head(recs).hours) ELSE 0)
         + SumHours(Tail(recs))

\* round(x, 2) of a product given in ten-thousandths.  On an exact decimal
\* tie the binary double of the product decides; both neighbours are kept.
Round2Set(p) ==
    LET q == p \div 100
        r == p % 100
    IN  IF r < 50 THEN {q} ELSE IF r > 50 THEN {q + 1} ELSE {q, q + 1}

\* A slip: without an hourly rate the salary is computed at the rate 0.
RecalculateTotalsRateOrZero(h, ref) ==
    IF h[ref].records = <<>> THEN {h}
    ELSE LET total_hours == SumHours(RecordValues(h, ref))
             m == h[ref].metadata
             h1 == [h EXCEPT ![m].total_hours = Some(total_hours)]
         IN  IF TruthyNum(h1[m].hourly_rate)
             THEN { [h1 EXCEPT ![m].total_salary = Some(s)] :
                      s \in Round2Set(Val(h1[m].hourly_rate) * total_hours) }
             ELSE {[h1 EXCEPT ![m].total_salary = Some(0)]}

\* A plausible slip: the totals of a report without records are
\* recomputed too.
RecalculateTotalsAlways(h, ref) ==
    LET total_hours == SumHours(RecordValues(h, ref))
        m == h[ref].metadata
        h1 == [h EXCEPT ![m].total_hours = Some(total_hours)]
    IN  IF TruthyNum(h1[m].hourly_rate)
        THEN { [h1 EXCEPT ![m].total_salary = Some(s)] :
                 s \in Round2Set(Val(h1[m].hourly_rate) * total_hours) }
        ELSE {h1}

\* _recalculate_totals on the report object ref: the heaps it can leave.
RecalculateTotals(h, ref) ==
    IF h[ref].records = <<>> THEN {h}
    ELSE LET total_hours == SumHours(RecordValues(h, ref))
             m == h[ref].metadata
             h1 == [h EXCEPT ![m].total_hours = Some(total_hours)]
         IN  IF TruthyNum(h1[m].hourly_rate)
             THEN { [h1 EXCEPT ![m].total_salary = Some(s)] :
                      s \in Round2Set(Val(h1[m].hourly_rate) * total_hours) }
             ELSE {h1}

\* ------------------------------------------------- records and reports
SIMPLE == "simple"
DETAILED == "detailed"
UNKNOWN == "unknown"

\* The text of a date token DD<sep>MM<sep>YYYY.
DateText(d, mo, y, sep) == [d |-> d, mo |-> mo, y |-> y, sep |-> sep]

\* AttendanceRecord(...) as _parse_simple_records_flexible builds it.
AttendanceRecord(date, day_of_week, start_time, end_time, total) ==
    [date |-> date, day_of_week |-> day_of_week,
     start_time |-> Some(start_time), end_time |-> Some(end_time),
     hours |-> total, total |-> total, notes |-> None]

\* decimals[i] if the line has that many decimal tokens, else None.
Positional(decimals, i) ==
    IF Len(decimals) >= i THEN Some(decimals[i]) ELSE None

\* DetailedAttendanceRecord(...) as _parse_detailed_records_flexible
\* builds it: times are the line's time tokens, decimals its decimals.
DetailedAttendanceRecord(date, day_of_week, location, times, decimals) ==
    [date |-> date, day_of_week |-> day_of_week,
     start_time |-> Some(times[1]), end_time |-> Some(times[2]),
     hours |-> Positional(decimals, 1), total |-> Positional(decimals, 1),
     notes |-> None, location |-> location,
     break_time |-> IF Len(times) >= 3 THEN Some(times[3]) ELSE None,
     hours_100 |-> Positional(decimals, 2),
     hours_125 |-> Positional(decimals, 3),
     hours_150 |-> Positional(decimals, 4),
     saturday |-> Positional(decimals, 5)]

\* ReportMetadata() with the fields the parser fills.
ReportMetadata(total_hours, total_salary, hourly_rate, template_type) ==
    [employee_name |-> None, employee_id |-> None, company_name |-> None,
     month |-> None, year |-> None, total_hours |-> total_hours,
     total_salary |-> total_salary, hourly_rate |-> hourly_rate,
     required_hours |-> None, template_type |-> template_type,
     top_table_rows |-> <<>>]

EmptyHeap == [r \in {} |-> None]

\* The objects of a freshly parsed report: [heap, ref] of the report.
NewReport(metadata, records, template_type, raw_text) ==
    LET a == AllocSeq(EmptyHeap, <<metadata>> \o records)
    IN  Alloc(a.heap, [metadata |-> Head(a.refs), records |-> Tail(a.refs),
                       template_type |-> template_type, raw_text |-> raw_text])

\* ---------------------------------------------------------- parser: text
\* A line of the cleaned text is the sequence of its whitespace-separated
\* tokens; joining two lines with " " is concatenation.  A token is
\*   a date   DD<sep>MM<sep>YYYY, with lead = 1 when one other character
\*            stands before it in the token, as in "(01/01/2024",
\*   a time   of the shape \d{1,2}:\d{2},
\*   a decimal number with two digits after the point (v in hundredths),
\*   an integer number (v in hundredths as well), or
\*   a word   of letters and punctuation.
Date(text, lead) == [k |-> "date", text |-> text, lead |-> lead]
Time(text) == [k |-> "time", text |-> text]
Decimal(v) == [k |-> "decimal", v |-> v]
Integer(v) == [k |-> "integer", v |-> v]
Word(s) == [k |-> "word", s |-> s]

\* The characters of a number or word token.
Text(tok) ==
    IF tok.k = "word" THEN tok.s
    ELSE IF tok.k = "integer" THEN ToString(tok.v \div 100)
    ELSE ToString(tok.v \div 100) \o "." \o ToString((tok.v % 100) \div 10)
                                  \o ToString(tok.v % 10)

\* len(w) of a token w of line.split().
TokLen(tok) ==
    IF tok.k = "date" THEN 10 + tok.lead
    ELSE IF tok.k = "time" THEN tok.text.w + 3
    ELSE Len(Text(tok))

Min(a, b) == IF a <= b THEN a ELSE b

\* lines[:n]
Prefix(seq, n) == SubSeq(seq, 1, Min(n, Len(seq)))

\* FlexiblePatterns.DATE, TIME and DECIMAL.
DATE == "DATE"
TIME == "TIME"
DECIMAL == "DECIMAL"

\* What a pattern matches inside one token: a date token holds one DATE
\* match, and one DECIMAL match ("DD.MM") when its separator is the point;
\* a time token holds one TIME match; a decimal number one DECIMAL match.
TokenMatches(pattern, tok) ==
    IF pattern = DATE
    THEN (IF tok.k = "date" THEN <<tok.text>> ELSE <<>>)
    ELSE IF pattern = TIME
    THEN (IF tok.k = "time" THEN <<tok.text>> ELSE <<>>)
    ELSE IF tok.k = "decimal" THEN <<tok.v>>
    ELSE IF tok.k = "date" /\ tok.text.sep = "."
    THEN <<tok.text.d * 100 + tok.text.mo>>
    ELSE <<>>

\* A for loop over seq that threads a state through Step.  It is evaluated
\* by halves, which keeps the depth of the evaluation logarithmic in the
\* length of seq; the test on left makes the evaluator finish the first
\* half before it starts on the second.
RECURSIVE Fold(_, _, _)
Fold(Step(_, _), state, seq) ==
    IF seq = <<>> THEN state
    ELSE IF Len(seq) = 1 THEN Step(state, seq[1])
    ELSE LET half == Len(seq) \div 2
             left == Fold(Step, state, SubSeq(seq, 1, half))
         IN  IF left = left
             THEN Fold(Step, left, SubSeq(seq, half + 1, Len(seq)))
             ELSE left

\* re.findall(pattern, line): the matches of the tokens that hold one, in
\* the order of the tokens.
findall(pattern, line) ==
    LET Holds(tok) == TokenMatches(pattern, tok) # <<>>
        holding == SelectSeq(line, Holds)
    IN  [i \in 1..Len(holding) |-> TokenMatches(pattern, holding[i])[1]]

\* re.match(FlexiblePatterns.DATE, line): the line begins with a date.
MatchDate(line) ==
    line # <<>> /\ Head(line).k = "date" /\ Head(line).lead = 0

\* The body of the loop of _merge_broken_lines for one line.
MergeLine(st, line) ==
    IF MatchDate(line)
    THEN [merged |-> IF st.buffer # <<>> THEN Append(st.merged, st.buffer)
                     ELSE st.merged,
          buffer |-> line]
    ELSE [st EXCEPT !.buffer = st.buffer \o line]

\* _merge_broken_lines without the final append of the buffer: the last
\* logical row is lost.
MergeBrokenLinesNoFlush(lines) ==
    Fold(MergeLine, [merged |-> <<>>, buffer |-> <<>>], lines).merged

\* _merge_broken_lines
MergeBrokenLines(lines) ==
    LET st == Fold(MergeLine, [merged |-> <<>>, buffer |-> <<>>], lines)
    IN  IF st.buffer # <<>> THEN Append(st.merged, st.buffer) ELSE st.merged

\* -------------------------------------------------- parser: classifier
\* The keyword patterns, the Hebrew ones by transliterated name.
DETAILED_KEYWORDS ==
    {"125%", "150%", "shabat", "hafsaka", "break",
     "makom", "location", "n.b", "baam"}

SIMPLE_KEYWORDS ==
    {"knisa", "yetzia", "hatchala", "siyum", "start", "end", "entry", "exit"}

\* The pairs <<word, pattern>> of words that hold a keyword pattern inside
\* a longer or differently cased word.
HoldsInside ==
    {<<"Weekend", "end">>, <<"Breaks", "break">>, <<"Start", "start">>}

\* The words of the text.
WordsOf(lines) ==
    UNION { { lines[i][j].s : j \in { n \in 1..Len(lines[i]) : lines[i][n].k = "word" } } :
              i \in 1..Len(lines) }

\* re.search(pattern, word, re.IGNORECASE) for a keyword pattern.
SearchKeyword(pattern, word) ==
    word = pattern \/ <<word, pattern>> \in HoldsInside

\* sum(1 for pattern in keywords if re.search(pattern, self.text, ...))
KeywordCount(keywords, words) ==
    Cardinality({ pattern \in keywords :
                    \E word \in words : SearchKeyword(pattern, word) })

\* len([w for w in line.split() if len(w) > 1])
WordCount(line) ==
    LET Long(tok) == TokLen(tok) > 1 IN Len(SelectSeq(line, Long))

\* dates + times + decimals + min(words, 3) of a line.
Elements(line) ==
    Len(findall(DATE, line)) + Len(findall(TIME, line))
    + Len(findall(DECIMAL, line)) + Min(WordCount(line), 3)

COLUMN_LINES == 20
METADATA_LINES == 25
STRUCTURE_LINES == 30

\* _estimate_column_count
EstimateColumnCount(lines) ==
    LET Step(max_elements, line) == Max(max_elements, Elements(line))
    IN  Fold(Step, 0, Prefix(lines, COLUMN_LINES))

\* The loop of _identify_template over the given lines: the first line
\* with two times and a decimal returns from it.
ByLineStructure(lines) ==
    LET Step(returned, line) ==
            IF returned # None THEN returned
            ELSE LET times == Len(findall(TIME, line))
                     decimals == Len(findall(DECIMAL, line))
                 IN  IF times >= 2 /\ decimals >= 4 THEN Some(DETAILED)
                     ELSE IF times >= 2 /\ decimals >= 1 THEN Some(SIMPLE)
                     ELSE None
        returned == Fold(Step, None, lines)
    IN  IF returned # None THEN Val(returned) ELSE UNKNOWN

\* A plausible slip: the keyword counts decide first, and the column
\* count is looked at only when they decide nothing.
IdentifyTemplateKeywordsFirst(lines) ==
    IF KeywordCount(DETAILED_KEYWORDS, WordsOf(lines)) >= 3 THEN DETAILED
    ELSE IF KeywordCount(SIMPLE_KEYWORDS, WordsOf(lines)) >= 2 THEN SIMPLE
    ELSE IF EstimateColumnCount(lines) >= 10 THEN DETAILED
    ELSE IF 5 <= EstimateColumnCount(lines) /\ EstimateColumnCount(lines) <= 7
    THEN SIMPLE
    ELSE ByLineStructure(Prefix(lines, STRUCTURE_LINES))

\* _identify_template
IdentifyTemplate(lines) ==
    LET words == WordsOf(lines)
        detailed_count == KeywordCount(DETAILED_KEYWORDS, words)
        simple_count == KeywordCount(SIMPLE_KEYWORDS, words)
        column_count == EstimateColumnCount(lines)
    IN  IF detailed_count >= 3 \/ column_count >= 10 THEN DETAILED
        ELSE IF simple_count >= 2 \/ (5 <= column_count /\ column_count <= 7)
        THEN SIMPLE
        ELSE ByLineStructure(Prefix(lines, STRUCTURE_LINES))

\* ---------------------------------------------------- parser: metadata
\* The labels the metadata patterns look for, as the words they span; the
\* optional currency sign is a token of its own.
TOTAL_HOURS_LABELS == {<<"Total", "Hours:">>, <<"Total", "Hours">>}
DAYS_LABELS == {<<"Days:">>, <<"Days">>}
TOTAL_SALARY_LABELS ==
    {<<"Total:">>, <<"Total">>, <<"Total:", "$">>, <<"Total", "$">>}
CURRENCY_LABELS == {<<"$">>}
HOURLY_RATE_LABELS ==
    {<<"Hourly", "Rate:">>, <<"Hourly", "Rate">>,
     <<"Hourly", "Rate:", "$">>, <<"Hourly", "Rate", "$">>}
REQUIRED_HOURS_LABELS == {<<"Required", "Hours:">>, <<"Required", "Hours">>}

\* The capture groups: ([\d.]+), (\d+) and ([\d,]+\.?\d*).
DIGITS_POINTS == "[\\d.]+"
DIGITS == "\\d+"
AMOUNT == "[\\d,]+\\.?\\d*"

\* _safe_float of what a capture group takes from the front of a token,
\* None when the token does not begin with a digit.  "01.01.2024" is
\* taken whole by [\d.]+ and is no float: _safe_float gives its default.
Capture(group, tok) ==
    IF tok.k = "integer" THEN Some(tok.v)
    ELSE IF tok.k = "decimal"
    THEN Some(IF group = DIGITS THEN (tok.v \div 100) * 100 ELSE tok.v)
    ELSE IF tok.k = "time" THEN Some(tok.text.h * 100)
    ELSE IF tok.k = "date" /\ tok.lead = 0
    THEN (IF tok.text.sep # "." \/ group = DIGITS THEN Some(tok.text.d * 100)
          ELSE IF group = AMOUNT THEN Some(tok.text.d * 100 + tok.text.mo)
          ELSE Some(0))
    ELSE None

\* The label l stands at the front of the line, a capture behind it.
LabelHere(l, group, line) ==
    /\ Len(line) > Len(l)
    /\ \A j \in 1..Len(l) : line[j] = Word(l[j])
    /\ Capture(group, line[Len(l) + 1]) # None

\* re.search of a label pattern in a line: the capture of the leftmost
\* match, or None.
RECURSIVE Search(_, _, _)
Search(labels, group, line) ==
    IF line = <<>> THEN None
    ELSE LET hits == { l \in labels : LabelHere(l, group, line) }
         IN  IF hits # {}
             THEN Capture(group, line[Len(CHOOSE l \in hits : TRUE) + 1])
             ELSE Search(labels, group, Tail(line))

\* if match and not self.metadata.<field>: self.metadata.<field> = ...
SetIfUnset(metadata, field, match) ==
    IF match # None /\ ~TruthyNum(metadata[field])
    THEN [metadata EXCEPT ![field] = match]
    ELSE metadata

\* The body of the loop of _extract_metadata for one line.
ExtractFromLine(metadata, line) ==
    LET m1 == SetIfUnset(metadata, "total_hours",
                         Search(TOTAL_HOURS_LABELS, DIGITS_POINTS, line))
        m2 == SetIfUnset(m1, "total_hours", Search(DAYS_LABELS, DIGITS, line))
        m3 == SetIfUnset(m2, "total_salary",
                         Search(TOTAL_SALARY_LABELS, AMOUNT, line))
        m4 == SetIfUnset(m3, "total_salary",
                         Search(CURRENCY_LABELS, AMOUNT, line))
        m5 == SetIfUnset(m4, "hourly_rate",
                         Search(HOURLY_RATE_LABELS, DIGITS_POINTS, line))
    IN  SetIfUnset(m5, "required_hours",
                   Search(REQUIRED_HOURS_LABELS, DIGITS_POINTS, line))

\* _extract_month_year: month and year of the first date of the text.
ExtractMonthYear(metadata, lines) ==
    LET HasDate(line) == findall(DATE, line) # <<>>
        dated == SelectSeq(lines, HasDate)
    IN  IF dated = <<>> THEN metadata
        ELSE LET first_date == findall(DATE, dated[1])[1]
             IN  [metadata EXCEPT
                    !.month = Some(first_date.mo),
                    !.year = Some(IF first_date.y >= 100 THEN first_date.y
                                  ELSE IF first_date.y > 50
                                  THEN 1900 + first_date.y
                                  ELSE 2000 + first_date.y)]

\* _extract_metadata.  The company patterns ask for a newline or three
\* blanks behind the name; a line of the cleaned text holds neither.
ExtractMetadata(metadata, lines) ==
    ExtractMonthYear(Fold(ExtractFromLine, metadata, Prefix(lines, METADATA_LINES)),
                     lines)

\* ------------------------------------------------------ parser: records
ENGLISH_DAY ==
    {"Monday", "Tuesday", "Wednesday", "Thursday", "Friday", "Saturday",
     "Sunday", "Mon", "Tue", "Wed", "Thu", "Fri", "Sat", "Sun"}

IsDay(tok) == tok.k = "word" /\ tok.s \in ENGLISH_DAY

\* _extract_day: the first day name of the line, "" when there is none.
ExtractDay(line) ==
    LET days == SelectSeq(line, IsDay)
    IN  IF days = <<>> THEN "" ELSE days[1].s

\* line[day_pos + len(day):].split()
AfterDay(line) ==
    LET Step(st, tok) ==
            IF st.found THEN [st EXCEPT !.words = Append(st.words, tok)]
            ELSE [st EXCEPT !.found = IsDay(tok)]
    IN  Fold(Step, [found |-> FALSE, words |-> <<>>], line).words

\* _extract_location: the word behind the day when it is short and not a
\* time.
ExtractLocation(line, day) ==
    IF day = "" THEN ""
    ELSE LET words == AfterDay(line)
         IN  IF words # <<>> /\ TokLen(words[1]) <= 6
                /\ words[1].k \notin {"time", "date"}
             THEN Text(words[1])
             ELSE ""

\* A plausible slip: the two times are taken in the wrong order.
ParseSimpleLineEndFirst(records, line) ==
    LET dates == findall(DATE, line)
        times == findall(TIME, line)
        decimals == findall(DECIMAL, line)
    IN  IF dates = <<>> \/ Len(times) < 2 THEN records
        ELSE Append(records,
                 AttendanceRecord(dates[1], ExtractDay(line), times[2], times[1],
                     IF decimals # <<>> THEN Some(decimals[Len(decimals)])
                     ELSE None))

\* The body of the loop of _parse_simple_records_flexible for one line.
ParseSimpleLine(records, line) ==
    LET dates == findall(DATE, line)
        times == findall(TIME, line)
        decimals == findall(DECIMAL, line)
    IN  IF dates = <<>> \/ Len(times) < 2 THEN records
        ELSE Append(records,
                 AttendanceRecord(dates[1], ExtractDay(line), times[1], times[2],
                     IF decimals # <<>> THEN Some(decimals[Len(decimals)])
                     ELSE None))

\* The loop of _parse_simple_records_flexible over the merged lines.
ParseSimpleRecords(merged_lines) == Fold(ParseSimpleLine, <<>>, merged_lines)

\* A slip: the detailed grammar asks for a third time, the break.
ParseDetailedLineNeedsBreak(records, line) ==
    LET dates == findall(DATE, line)
        times == findall(TIME, line)
        day == ExtractDay(line)
    IN  IF dates = <<>> \/ Len(times) < 3 THEN records
        ELSE Append(records,
                 DetailedAttendanceRecord(dates[1], day, ExtractLocation(line, day),
                     times, findall(DECIMAL, line)))

\* The body of the loop of _parse_detailed_records_flexible for one line.
ParseDetailedLine(records, line) ==
    LET dates == findall(DATE, line)
        times == findall(TIME, line)
        day == ExtractDay(line)
    IN  IF dates = <<>> \/ Len(times) < 2 THEN records
        ELSE Append(records,
                 DetailedAttendanceRecord(dates[1], day, ExtractLocation(line, day),
                     times, findall(DECIMAL, line)))

\* The loop of _parse_detailed_records_flexible over the merged lines.
ParseDetailedRecords(merged_lines) == Fold(ParseDetailedLine, <<>>, merged_lines)

\* ------------------------------------------------------ generator state
VARIABLES
    heap,            \* object id -> object
    parsed_report,   \* id of the report handed to the generator
    varied_report,   \* id of the report last returned, 0 before any call
    generator,       \* the AttendanceVariationGenerator last constructed
    random_state,    \* the state of the `random` module's generator
    original,        \* the value of parsed_report when it was parsed
    parser,          \* the AttendanceParser: its lines, metadata, records
    result,          \* what parse() returned last, None before any call
    tried,           \* the record grammars the last parse() ran, in order
    merged,          \* what _merge_broken_lines returned last
    processor,       \* the AttendanceReportProcessor and the run it is in
    page,            \* the page spans handed to the PDFReader, and its answers
    writer           \* the PDFWriter and what its write() laid out

parserVars == <<parser, result, tried, merged>>

driverVars == <<processor, page, writer>>

vars == <<heap, parsed_report, varied_report, generator, random_state, original,
          parser, result, tried, merged, processor, page, writer>>

\* AttendanceParser.__init__ on a text of the given lines.
NewParser(lines) ==
    [lines |-> lines, metadata |-> ReportMetadata(None, None, None, UNKNOWN),
     records |-> <<>>, pc |-> "identify"]

\* No text has been handed to a parser.
ParserInit(lines) ==
    /\ parser = NewParser(lines)
    /\ result = None
    /\ tried = <<>>
    /\ merged = <<>>

\* AttendanceReportProcessor.__init__, with the arguments of the run and
\* what the run has done so far: pc is the step of process() that comes
\* next, steps the helpers that have been entered, in order, records_found
\* the number of records parse() returned, write_outcome what write_pdf
\* did, output_written whether the output file has been written to.
NewProcessor(input_exists, input_suffix, variation_level) ==
    [pdf_content |-> None, parsed_report |-> None, varied_report |-> None,
     input_exists |-> input_exists, input_suffix |-> input_suffix,
     variation_level |-> variation_level,
     pc |-> "read", steps |-> <<>>, records_found |-> None,
     write_outcome |-> None, output_written |-> FALSE,
     success |-> None, exit_code |-> None]

\* A page of the given spans, before its analysis.
NewPage(spans) ==
    [spans |-> spans, margins |-> None, columns |-> None, row_spacing |-> None,
     attempts |-> <<>>, text |-> None]

NoPage == NewPage(<<>>)

\* PDFWriter.__init__, before any write(): layout names the template
\* method write() called, template_type the report it was given.
NewWriter ==
    [structure |-> None, preserve_layout |-> TRUE, template_type |-> None,
     layout |-> None, col_widths |-> None]

\* A processor on which process() is not called.
IdleProcessor ==
    [NewProcessor(FALSE, ".pdf", "moderate") EXCEPT !.pc = "idle"]

\* No run of the driver and no page analysis is under way.
DriverInit ==
    /\ processor = IdleProcessor
    /\ page = NoPage
    /\ writer = NewWriter

LevelNames == {MINIMAL, MODERATE, SIGNIFICANT, "extreme"}

RandomStates == { [stream |-> s, pos |-> 0] : s \in [1..2 -> {0 - 1, 0, 1}] }

\* Rows as the simple grammar yields them.
SimpleRows ==
    { AttendanceRecord(DateText(1, 1, 2024, "/"), "", T(2, 8, 0), T(2, 17, 0), Some(850)),
      AttendanceRecord(DateText(1, 1, 2024, "/"), "Sunday", T(2, 99, 99), T(2, 17, 0), None) }

\* Rows as the detailed grammar yields them.
DetailedRows ==
    { DetailedAttendanceRecord(DateText(1, 1, 2024, "/"), "Sunday", "HQ",
          <<T(2, 8, 0), T(2, 17, 0), T(2, 0, 30)>>, <<850, 800, 50, 0, 0>>),
      DetailedAttendanceRecord(DateText(1, 1, 2024, "/"), "", "",
          <<T(1, 7, 0), T(2, 19, 30)>>, <<1250, 800>>) }

\* Metadata as parse() leaves it: (total_hours, total_salary, hourly_rate).
ParsedTotals ==
    { <<Some(8400), None, None>>,
      <<Some(850), Some(5000), Some(3065)>>,
      <<Some(850), Some(5000), Some(0)>>,
      <<Some(850), Some(5000), None>> }

\* Row i of a report carries the i-th date of the month.
Dated(rows) ==
    [i \in 1..Len(rows) |-> [rows[i] EXCEPT !.date = DateText(i, 1, 2024, "/")]]

ParsedReports(RowSet, template_types, sizes) ==
    { [metadata |-> ReportMetadata(t[1], t[2], t[3], tt),
       records |-> Dated(rows), template_type |-> tt, raw_text |-> "text"] :
        t \in ParsedTotals, tt \in template_types,
        rows \in UNION { [1..n -> RowSet] : n \in sizes } }

GenInit(report) ==
    LET new == NewReport(report.metadata, report.records,
                         report.template_type, report.raw_text)
    IN  /\ heap = new.heap
        /\ parsed_report = new.ref
        /\ varied_report = 0
        /\ generator = NewGenerator(MODERATE)
        /\ original = report
        /\ ParserInit(<<>>)
        /\ DriverInit

Init ==
    /\ \E report \in ParsedReports(SimpleRows, {SIMPLE}, 0..MaxRecords)
                     \cup ParsedReports(DetailedRows, {DETAILED}, 0..MaxRecords) :
           GenInit(report)
    /\ random_state \in RandomStates

\* generator = AttendanceVariationGenerator(variation_level)
Construct ==
    \E variation_level \in LevelNames :
        /\ generator' = NewGenerator(variation_level)
        /\ UNCHANGED <<heap, parsed_report, varied_report, random_state, original>>
        /\ UNCHANGED parserVars
        /\ UNCHANGED driverVars

\* varied_report.records = varied_records: the new record objects take
\* the place of the copied ones in the report object copy.ref.
StoreVaried(copy, varied_records) ==
    [heap |-> [AllocSeq(copy.heap, varied_records).heap
                  EXCEPT ![copy.ref].records =
                             AllocSeq(copy.heap, varied_records).refs],
     ref |-> copy.ref]

\* The loop of generate_variation over the records of the copy.
VariedCopy(copy, config, draws) ==
    StoreVaried(copy,
                VariedRecords(RecordValues(copy.heap, copy.ref), config, draws))

\* self._recalculate_totals(varied_report); return varied_report
ReturnVaried(varied) ==
    \E done \in RecalculateTotals(varied.heap, varied.ref) :
        /\ heap' = Collect(done, {parsed_report, varied.ref})
        /\ varied_report' = varied.ref

\* gen.generate_variation(parsed_report) with the given draws: the heap
\* and the returned report.
Generate(gen, draws) ==
    ReturnVaried(VariedCopy(DeepCopyReport(heap, parsed_report),
                            gen.config, draws))

\* generator.generate_variation(parsed_report), drawing from `random`.
GenerateVariation ==
    LET d == DrawAll(original.records, generator.config, random_state)
    IN  /\ Generate(generator, d.draws)
        /\ random_state' = d.rs
        /\ UNCHANGED <<parsed_report, generator, original>>
        /\ UNCHANGED parserVars
        /\ UNCHANGED driverVars

\* create_variation(parsed_report, variation_level)
CreateVariation ==
    \E variation_level \in LevelNames :
        LET gen == NewGenerator(variation_level)
            d == DrawAll(original.records, gen.config, random_state)
        IN  /\ generator' = gen
            /\ Generate(gen, d.draws)
            /\ random_state' = d.rs
            /\ UNCHANGED <<parsed_report, original>>
            /\ UNCHANGED parserVars
            /\ UNCHANGED driverVars

Next == Construct \/ GenerateVariation \/ CreateVariation

Spec == Init /\ [][Next]_vars

\* ------------------------------------------ one record, every draw
\* Single-row reports, varied once with every result the randint calls
\* can give at the generator's level.
VarySimpleRows ==
    { AttendanceRecord(DateText(1, 1, 2024, "/"), "", tt[1], tt[2], Some(850)) :
        tt \in { <<T(2, 8, 0), T(2, 17, 0)>>,
                 <<T(2, 5, 58), T(2, 23, 58)>>,
                 <<T(2, 10, 20), T(2, 9, 55)>>,
                 <<T(2, 0, 2), T(2, 5, 0)>>,
                 <<T(1, 9, 58), T(2, 10, 5)>>,
                 <<T(2, 99, 99), T(2, 17, 0)>>,
                 <<T(2, 8, 0), T(2, 24, 0)>>,
                 <<T(2, 99, 99), T(2, 24, 0)>> } }

VaryDetailedRows ==
    { DetailedAttendanceRecord(DateText(1, 1, 2024, "/"), "Sunday", "HQ",
          <<T(2, 8, 0), T(2, 17, 20), T(2, 0, 30)>>, <<850, 800, 50, 0, 0>>),
      DetailedAttendanceRecord(DateText(1, 1, 2024, "/"), "Sunday", "",
          <<T(2, 9, 40), T(2, 10, 10), T(2, 0, 45)>>, <<0, 0, 0, 0>>),
      DetailedAttendanceRecord(DateText(1, 1, 2024, "/"), "", "",
          <<T(2, 6, 10), T(2, 17, 50)>>, <<1250, 800>>),
      DetailedAttendanceRecord(DateText(1, 1, 2024, "/"), "", "",
          <<T(2, 99, 99), T(2, 17, 0), T(2, 2, 55)>>, <<850, 800, 50, 0>>),
      DetailedAttendanceRecord(DateText(1, 1, 2024, "/"), "", "",
          <<T(2, 8, 0), T(2, 17, 0), T(2, 0, 60)>>, <<>>),
      DetailedAttendanceRecord(DateText(1, 1, 2024, "/"), "", "",
          <<T(2, 7, 0), T(2, 16, 0), T(2, 2, 55)>>, <<>>) }

InitVary ==
    /\ \E row \in VarySimpleRows \cup VaryDetailedRows :
           GenInit([metadata |-> ReportMetadata(Some(850), None, Some(3065),
                                    IF HasAttr(row, "break_time") THEN DETAILED ELSE SIMPLE),
                    records |-> <<row>>,
                    template_type |-> IF HasAttr(row, "break_time") THEN DETAILED ELSE SIMPLE,
                    raw_text |-> "text"])
    /\ random_state = [stream |-> <<0, 0>>, pos |-> 0]

ConstructFirst ==
    /\ varied_report = 0
    /\ Construct

\* The one call of generate_variation, its draws taken from randint's range.
VaryOnce ==
    /\ varied_report = 0
    /\ \E t \in DrawTriples(original.records[1], generator.config) :
           Generate(generator, <<t>>)
    /\ UNCHANGED <<parsed_report, generator, random_state, original>>
    /\ UNCHANGED parserVars
    /\ UNCHANGED driverVars

NextVary == ConstructFirst \/ VaryOnce

SpecVary == InitVary /\ [][NextVary]_vars

\* --------------------------------------------------------- parser: parse
\* A plausible slip: the generic parse runs the detailed grammar first.
ParseFlexibleGenericDetailedFirst(merged_lines) ==
    LET detailed == ParseDetailedRecords(merged_lines)
    IN  IF detailed # <<>> THEN [records |-> detailed, tried |-> <<DETAILED>>]
        ELSE [records |-> ParseSimpleRecords(merged_lines),
              tried |-> <<DETAILED, SIMPLE>>]

\* _parse_flexible_generic: the simple grammar, and the detailed one when
\* the simple one found nothing.
ParseFlexibleGeneric(merged_lines) ==
    LET simple == ParseSimpleRecords(merged_lines)
    IN  IF simple # <<>> THEN [records |-> simple, tried |-> <<SIMPLE>>]
        ELSE [records |-> ParseDetailedRecords(merged_lines),
              tried |-> <<SIMPLE, DETAILED>>]

\* The branch of parse() on the template type.
ParseRecords(template_type, merged_lines) ==
    IF template_type = DETAILED
    THEN [records |-> ParseDetailedRecords(merged_lines), tried |-> <<DETAILED>>]
    ELSE IF template_type = SIMPLE
    THEN [records |-> ParseSimpleRecords(merged_lines), tried |-> <<SIMPLE>>]
    ELSE ParseFlexibleGeneric(merged_lines)

\* _calculate_totals: the metadata it can leave (round() of the salary may
\* fall either way on a tie).
CalculateTotals(metadata, records) ==
    LET m1 == IF ~TruthyNum(metadata.total_hours) /\ records # <<>>
              THEN [metadata EXCEPT !.total_hours = Some(SumHours(records))]
              ELSE metadata
    IN  IF /\ ~TruthyNum(m1.total_salary)
           /\ TruthyNum(m1.hourly_rate)
           /\ TruthyNum(m1.total_hours)
        THEN { [m1 EXCEPT !.total_salary = Some(s)] :
                 s \in Round2Set(Val(m1.hourly_rate) * Val(m1.total_hours)) }
        ELSE {m1}

\* A report that names the template UNKNOWN whenever it holds no record.
ParsedReportUnknownWhenEmpty(metadata, records, template_type, raw_text) ==
    [metadata |-> metadata, records |-> records,
     template_type |-> IF records = <<>> THEN UNKNOWN ELSE template_type,
     raw_text |-> raw_text]

\* ParsedReport(metadata=..., records=..., template_type=..., raw_text=...)
ParsedReport(metadata, records, template_type, raw_text) ==
    [metadata |-> metadata, records |-> records,
     template_type |-> template_type, raw_text |-> raw_text]

generatorVars ==
    <<heap, parsed_report, varied_report, generator, random_state, original>>

\* parser.parse(), called once on a parser: parse_attendance_report builds
\* a new parser for every text.
Parse ==
    /\ result = None
    /\ LET template_type == IdentifyTemplate(parser.lines)
           metadata ==
               ExtractMetadata([parser.metadata EXCEPT
                                   !.template_type = template_type],
                               parser.lines)
           merged_lines == MergeBrokenLines(parser.lines)
           parsed == ParseRecords(template_type, merged_lines)
       IN  \E totals \in CalculateTotals(metadata, parsed.records) :
               /\ parser' = [parser EXCEPT !.pc = "done",
                                           !.metadata = totals,
                                           !.records = parsed.records]
               /\ result' = Some(ParsedReport(totals, parsed.records,
                                              template_type, parser.lines))
               /\ tried' = parsed.tried
               /\ merged' = merged_lines
               /\ UNCHANGED generatorVars
               /\ UNCHANGED driverVars

\* --------------------------------------------------------- parser: texts
MaxLines == 3
MaxPaddedLines == 1

\* A line that holds no date, time, number, keyword or label.
FillerLine == <<Word("x")>>

\* n filler lines.
Filler(n) == [i \in 1..n |-> FillerLine]

\* Lines of attendance reports: rows whole and broken, headers, totals.
ReportLines ==
    { <<Date(DateText(1, 1, 2024, "/"), 0), Time(T(2, 8, 0)), Time(T(2, 17, 0)),
        Decimal(850)>>,
      <<Date(DateText(2, 1, 2024, "/"), 0), Time(T(2, 8, 0))>>,
      <<Time(T(2, 17, 0)), Decimal(850)>>,
      <<Time(T(1, 8, 0)), Time(T(2, 17, 0)), Decimal(850)>>,
      <<Date(DateText(3, 1, 2024, "/"), 0), Word("Sunday"), Word("HQ"),
        Time(T(2, 8, 0)), Time(T(2, 17, 0)), Time(T(2, 0, 30)),
        Decimal(850), Decimal(800), Decimal(50), Decimal(0), Decimal(0)>>,
      <<Word("start"), Word("end")>>,
      <<Word("break"), Word("125%"), Word("150%")>>,
      <<Word("Total:"), Integer(0)>>,
      <<Word("Total:"), Decimal(123450)>>,
      <<Word("Hourly"), Word("Rate:"), Decimal(3065)>>,
      <<Word("Total"), Word("Hours:"), Decimal(8400)>>,
      FillerLine }

\* Every text of up to k report lines.
Bodies(k) == UNION { [1..n -> ReportLines] : n \in 0..k }

\* Texts: up to MaxLines report lines, and up to MaxPaddedLines report
\* lines behind a run of filler lines that ends where one of the parser's
\* line windows ends.
Texts ==
    { Filler(0) \o body : body \in Bodies(MaxLines) }
    \cup { Filler(n) \o body :
             n \in {COLUMN_LINES, METADATA_LINES, STRUCTURE_LINES},
             body \in Bodies(MaxPaddedLines) }

InitParse ==
    /\ \E lines \in Texts : ParserInit(lines)
    /\ DriverInit
    /\ heap = EmptyHeap
    /\ parsed_report = 0
    /\ varied_report = 0
    /\ generator = NewGenerator(MODERATE)
    /\ random_state = [stream |-> <<0, 0>>, pos |-> 0]
    /\ original = None

NextParse == Parse

SpecParse == InitParse /\ [][NextParse]_vars

\* ------------------------------------------------- parser: step by step
\* parse() one call at a time; parser.pc is the call that comes next.
\* self.metadata.template_type holds the template once it is identified.

\* The records a grammar takes from the merged lines.
GrammarRecords(grammar, merged_lines) ==
    IF grammar = DETAILED THEN ParseDetailedRecords(merged_lines)
    ELSE ParseSimpleRecords(merged_lines)

\* The grammar parse() runs first for a template: the simple one for
\* SIMPLE and, through _parse_flexible_generic, for UNKNOWN.
FirstGrammar(template_type) ==
    IF template_type = DETAILED THEN DETAILED ELSE SIMPLE

\* A plausible slip: the detailed grammar always follows the simple one
\* in _parse_flexible_generic.
AfterFirstGrammarAlwaysDetailed(template_type, records) ==
    IF template_type \notin {DETAILED, SIMPLE} THEN "detailed" ELSE "totals"

\* What follows the first grammar: in _parse_flexible_generic the detailed
\* grammar `if not self.records`, else _calculate_totals.
AfterFirstGrammar(template_type, records) ==
    IF template_type \notin {DETAILED, SIMPLE} /\ records = <<>>
    THEN "detailed" ELSE "totals"

\* template_type = self._identify_template()
\* self.metadata.template_type = template_type
IdentifyStep ==
    /\ parser.pc = "identify"
    /\ parser' = [parser EXCEPT
                     !.pc = "metadata",
                     !.metadata.template_type = IdentifyTemplate(parser.lines)]
    /\ UNCHANGED <<result, tried, merged>>
    /\ UNCHANGED generatorVars
    /\ UNCHANGED driverVars

\* self._extract_metadata()
ExtractMetadataStep ==
    /\ parser.pc = "metadata"
    /\ parser' = [parser EXCEPT
                     !.pc = "records",
                     !.metadata = ExtractMetadata(parser.metadata, parser.lines)]
    /\ UNCHANGED <<result, tried, merged>>
    /\ UNCHANGED generatorVars
    /\ UNCHANGED driverVars

\* The first grammar of the branch on template_type.
FirstGrammarStep ==
    /\ parser.pc = "records"
    /\ parser' = [parser EXCEPT
                     !.pc = AfterFirstGrammar(
                                parser.metadata.template_type,
                                GrammarRecords(
                                    FirstGrammar(parser.metadata.template_type),
                                    MergeBrokenLines(parser.lines))),
                     !.records = GrammarRecords(
                                     FirstGrammar(parser.metadata.template_type),
                                     MergeBrokenLines(parser.lines))]
    /\ tried' = <<FirstGrammar(parser.metadata.template_type)>>
    /\ merged' = MergeBrokenLines(parser.lines)
    /\ UNCHANGED result
    /\ UNCHANGED generatorVars
    /\ UNCHANGED driverVars

\* The second call of _parse_flexible_generic.
DetailedGrammarStep ==
    /\ parser.pc = "detailed"
    /\ parser' = [parser EXCEPT
                     !.pc = "totals",
                     !.records = GrammarRecords(DETAILED,
                                                MergeBrokenLines(parser.lines))]
    /\ tried' = Append(tried, DETAILED)
    /\ merged' = MergeBrokenLines(parser.lines)
    /\ UNCHANGED result
    /\ UNCHANGED generatorVars
    /\ UNCHANGED driverVars

\* self._calculate_totals(); return ParsedReport(...)
CalculateTotalsStep ==
    /\ parser.pc = "totals"
    /\ \E totals \in CalculateTotals(parser.metadata, parser.records) :
           /\ parser' = [parser EXCEPT !.pc = "done", !.metadata = totals]
           /\ result' = Some(ParsedReport(totals, parser.records,
                                          parser.metadata.template_type,
                                          parser.lines))
    /\ UNCHANGED <<tried, merged>>
    /\ UNCHANGED generatorVars
    /\ UNCHANGED driverVars

NextStages ==
    \/ IdentifyStep
    \/ ExtractMetadataStep
    \/ FirstGrammarStep
    \/ DetailedGrammarStep
    \/ CalculateTotalsStep

SpecStages == InitParse /\ [][NextStages]_vars

\* ---------------------------------------------------------------- driver
\* parse_attendance_report(text): the reports parse() can return.
ParseAttendanceReport(lines) ==
    LET template_type == IdentifyTemplate(lines)
        records == ParseRecords(template_type, MergeBrokenLines(lines)).records
    IN  { ParsedReport(totals, records, template_type, lines) :
            totals \in CalculateTotals(
                ExtractMetadata([NewParser(lines).metadata EXCEPT
                                    !.template_type = template_type], lines),
                records) }

\* path.suffix.lower()
Lower(suffix) == IF suffix = ".PDF" THEN ".pdf" ELSE suffix

\* _read_pdf: content is what read_pdf returns, None when it raises.
ReadPdfResult(input_exists, input_suffix, content) ==
    IF ~input_exists THEN None
    ELSE IF Lower(input_suffix) # ".pdf" THEN None
    ELSE content

\* A slip: _parse_report hands on a report that holds no record.
ParseReportResultKeepsEmpty(pdf_content, report) ==
    IF pdf_content = None \/ Val(pdf_content).text = <<>> THEN None
    ELSE Some(report)

\* _parse_report: report is what parse_attendance_report returns.
ParseReportResult(pdf_content, report) ==
    IF pdf_content = None \/ Val(pdf_content).text = <<>> THEN None
    ELSE IF report.records = <<>> THEN None
    ELSE Some(report)

\* _recalculate_totals on the varied copy, and the report by value.
VariedReports(varied) ==
    { ReportValue(done, varied.ref) :
        done \in RecalculateTotals(varied.heap, varied.ref) }

\* create_variation(parsed_report, variation_level) with the generator of
\* `random` in state rs: the reports it can return, by value.
CreateVariationValues(report, variation_level, rs) ==
    VariedReports(
        VariedCopy(
            DeepCopyReport(NewReport(report.metadata, report.records,
                                     report.template_type, report.raw_text).heap,
                           NewReport(report.metadata, report.records,
                                     report.template_type, report.raw_text).ref),
            ConfigFor(variation_level),
            DrawAll(report.records, ConfigFor(variation_level), rs).draws))

\* main(): a level outside the three names becomes moderate.
MainLevel(argument) ==
    IF argument \in {MINIMAL, MODERATE, SIGNIFICANT} THEN argument ELSE MODERATE

\* What write_pdf can do: write the file, raise before it writes, or raise
\* with part of the file written.
WRITE_OUTCOMES == {"written", "raised", "raised_partial"}

\* process() returns: the flag goes to main().
Return(p, success) == [p EXCEPT !.pc = "return", !.success = Some(success)]

\* Step 1 of process(): _read_pdf and the test of its result.
ReadPdf ==
    /\ processor.pc = "read"
    /\ \E content \in {None} \cup { Some([text |-> t]) : t \in Bodies(MaxLines - 1) } :
           LET pdf_content == ReadPdfResult(processor.input_exists,
                                            processor.input_suffix, content)
               entered == [processor EXCEPT !.steps = Append(@, "_read_pdf"),
                                            !.pdf_content = pdf_content]
           IN  processor' = IF pdf_content = None THEN Return(entered, FALSE)
                            ELSE [entered EXCEPT !.pc = "parse"]
    /\ UNCHANGED <<page, writer, parserVars, generatorVars>>

\* Step 2 of process(): _parse_report and the test of its result.
ParseReport ==
    /\ processor.pc = "parse"
    /\ \E report \in ParseAttendanceReport(Val(processor.pdf_content).text) :
           LET parsed == ParseReportResult(processor.pdf_content, report)
               entered == [processor EXCEPT !.steps = Append(@, "_parse_report"),
                                            !.records_found =
                                                IF Val(processor.pdf_content).text = <<>>
                                                THEN None
                                                ELSE Some(Len(report.records)),
                                            !.parsed_report = parsed]
           IN  processor' = IF parsed = None THEN Return(entered, FALSE)
                            ELSE [entered EXCEPT !.pc = "vary"]
    /\ UNCHANGED <<page, writer, parserVars, generatorVars>>

\* Step 3 of process(): _create_variation and the test of its result.
ProcessCreateVariation ==
    /\ processor.pc = "vary"
    /\ \E varied \in CreateVariationValues(Val(processor.parsed_report),
                                          processor.variation_level, random_state) :
           processor' = [processor EXCEPT
                            !.steps = Append(@, "_create_variation"),
                            !.varied_report = Some(varied),
                            !.pc = "write"]
    /\ random_state' = DrawAll(Val(processor.parsed_report).records,
                               ConfigFor(processor.variation_level),
                               random_state).rs
    /\ UNCHANGED <<page, writer, parserVars, heap, parsed_report, varied_report,
                   generator, original>>

\* Step 4 of process(): _write_pdf, and the return of process().
WritePdf ==
    /\ processor.pc = "write"
    /\ \E outcome \in WRITE_OUTCOMES :
           processor' = Return([processor EXCEPT
                                   !.steps = Append(@, "_write_pdf"),
                                   !.write_outcome = Some(outcome),
                                   !.output_written = outcome # "raised"],
                               outcome = "written")
    /\ UNCHANGED <<page, writer, parserVars, generatorVars>>

\* main(): sys.exit(0 if success else 1)
Exit ==
    /\ processor.pc = "return"
    /\ processor' = [processor EXCEPT
                        !.pc = "exited",
                        !.exit_code = Some(IF Val(processor.success) THEN 0 ELSE 1)]
    /\ UNCHANGED <<page, writer, parserVars, generatorVars>>

InitDriver ==
    /\ \E input_exists \in BOOLEAN, input_suffix \in {".pdf", ".PDF", ".txt"},
          argument \in LevelNames :
           processor = NewProcessor(input_exists, input_suffix, MainLevel(argument))
    /\ page = NoPage
    /\ writer = NewWriter
    /\ ParserInit(<<>>)
    /\ heap = EmptyHeap
    /\ parsed_report = 0
    /\ varied_report = 0
    /\ generator = NewGenerator(MODERATE)
    /\ random_state \in RandomStates
    /\ original = None

NextDriver == ReadPdf \/ ParseReport \/ ProcessCreateVariation \/ WritePdf \/ Exit

SpecDriver == InitDriver /\ [][NextDriver]_vars

\* ------------------------------------------------------------ pdf reader
\* Coordinates are in hundredths of a point.  A span is a word with its
\* bounding box <<x0, y0, x1, y1>>; a rational number is [n, d] with d > 0.
Span(x0, y0, x1, text) == [bbox |-> <<x0, y0, x1, y0 + 1000>>, text |-> text]

\* round(v, 1), for v that is not halfway between two tenths.
Round1(v) == ((v + 5) \div 10) * 10

Rat(n, d) == [n |-> n, d |-> d]
RatLess(a, b) == a.n * b.d < b.n * a.d
RatSub(a, b) == [n |-> a.n * b.d - b.n * a.d, d |-> a.d * b.d]
RatAbs(a) == [n |-> IF a.n < 0 THEN 0 - a.n ELSE a.n, d |-> a.d]
RatMax(a, b) == IF RatLess(a, b) THEN b ELSE a
RatHalf(a) == [n |-> a.n, d |-> 2 * a.d]

\* The values seq holds.
Range(seq) == { seq[i] : i \in 1..Len(seq) }

\* sorted(S) of a set of numbers.
Sorted(S) ==
    [i \in 1..Cardinality(S) |->
        CHOOSE v \in S : Cardinality({ u \in S : u < v }) = i - 1]

\* sorted(spans, key=lambda s: s["bbox"][1]): a stable sort, spans with
\* the same y keep the order they came in.
SortedByTop(spans) ==
    LET Before(i, j) ==
            \/ spans[i].bbox[2] < spans[j].bbox[2]
            \/ spans[i].bbox[2] = spans[j].bbox[2] /\ i < j
        Rank(i) == Cardinality({ j \in 1..Len(spans) : Before(j, i) }) + 1
    IN  [r \in 1..Len(spans) |->
            spans[CHOOSE i \in 1..Len(spans) : Rank(i) = r]]

SetMin(S) == CHOOSE v \in S : \A u \in S : v <= u
SetMax(S) == CHOOSE v \in S : \A u \in S : v >= u

DEFAULT_MARGIN == 3600

\* _calculate_margins
CalculateMargins(spans, width, height) ==
    IF spans = <<>>
    THEN [top |-> DEFAULT_MARGIN, bottom |-> DEFAULT_MARGIN,
          left |-> DEFAULT_MARGIN, right |-> DEFAULT_MARGIN]
    ELSE [top |-> Max(0, SetMin({ s.bbox[2] : s \in Range(spans) })),
          bottom |-> Max(0, height - SetMax({ s.bbox[4] : s \in Range(spans) })),
          left |-> Max(0, SetMin({ s.bbox[1] : s \in Range(spans) })),
          right |-> Max(0, width - SetMax({ s.bbox[3] : s \in Range(spans) }))]

HEADER_FALLBACK == 15
CLUSTER_TOLERANCE == 800

\* The header spans of _detect_columns: those in the top 5% under the top
\* margin, or else the 15 topmost ones.
HeaderSpans(spans, margins, page_height) ==
    LET InHeader(s) == s.bbox[2] <= margins.top + (5 * page_height) \div 100
    IN  IF SelectSeq(spans, InHeader) # <<>> THEN SelectSeq(spans, InHeader)
        ELSE Prefix(SortedByTop(spans) \o <<>>, HEADER_FALLBACK)

\* A slip: the rounded x positions are taken in the order of the spans.
XPositionsUnsorted(header_spans) ==
    [i \in 1..Len(header_spans) |-> Round1(header_spans[i].bbox[1])] \o <<>>

\* sorted(set(round(s["bbox"][0], 1) for s in header_spans))
XPositions(header_spans) ==
    Sorted({ Round1(s.bbox[1]) : s \in Range(header_spans) }) \o <<>>

\* The loop that builds the clusters, for one x: it joins the current
\* cluster when it is within the tolerance of the cluster's last x.
ClusterStep(st, x) ==
    IF st.current = <<>> THEN [st EXCEPT !.current = <<x>>]
    ELSE IF x - st.current[Len(st.current)] <= CLUSTER_TOLERANCE
    THEN [st EXCEPT !.current = Append(@, x)]
    ELSE [clusters |-> Append(st.clusters, st.current), current |-> <<x>>]

\* The clusters of _detect_columns.
Clusters(x_positions) ==
    LET st == Fold(ClusterStep, [clusters |-> <<>>, current |-> <<>>], x_positions)
    IN  IF x_positions = <<>> THEN <<>> ELSE Append(st.clusters, st.current)

RECURSIVE Sum(_)
Sum(seq) == IF seq = <<>> THEN 0 ELSE Head(seq) + Sum(Tail(seq))

\* column_xs = [sum(c) / len(c) for c in clusters]
ColumnXs(clusters) ==
    [i \in 1..Len(clusters) |-> Rat(Sum(clusters[i]), Len(clusters[i]))]

\* col_width of column i.
ColumnWidth(column_xs, i, margins) ==
    RatMax(Rat(2000, 1),
           RatSub(RatSub(IF i + 1 <= Len(column_xs) THEN column_xs[i + 1]
                         ELSE Rat(margins.right + 10000, 1),
                         column_xs[i]),
                  Rat(400, 1)))

\* abs(span["bbox"][0] - x) < limit
Near(span, x, limit) == RatLess(RatAbs(RatSub(Rat(span.bbox[1], 1), x)), limit)

\* The name of a column: the text of the first header span near it that
\* has a text, "col_<i>" when there is none.
ColumnName(header_spans, x, col_width, i) ==
    LET Names(s) == Near(s, x, RatHalf(col_width)) /\ s.text # ""
    IN  IF SelectSeq(header_spans, Names) # <<>>
        THEN SelectSeq(header_spans, Names)[1].text
        ELSE "col_" \o ToString(i)

\* _guess_alignment
GuessAlignment(col_x, col_width, spans) ==
    LET InColumn(s) == Near(s, col_x, RatHalf(col_width))
        AtLeft(s) == InColumn(s) /\ Near(s, col_x, Rat(300, 1))
    IN  IF SelectSeq(spans, InColumn) = <<>> THEN "left"
        ELSE IF 10 * Len(SelectSeq(spans, AtLeft)) > 7 * Len(SelectSeq(spans, InColumn))
        THEN "left"
        ELSE "center"

\* ColumnInfo(...) for column i.
ColumnInfo(header_spans, column_xs, i, margins) ==
    [name |-> ColumnName(header_spans, column_xs[i],
                         ColumnWidth(column_xs, i, margins), i),
     x |-> column_xs[i],
     width |-> ColumnWidth(column_xs, i, margins),
     alignment |-> GuessAlignment(column_xs[i],
                                  ColumnWidth(column_xs, i, margins), header_spans)]

\* The columns over the header spans.
ColumnsOver(header_spans, margins) ==
    [i \in 1..Len(Clusters(XPositions(header_spans))) |->
        ColumnInfo(header_spans, ColumnXs(Clusters(XPositions(header_spans))),
                   i, margins)]

\* _detect_columns
DetectColumns(spans, margins, page_height) ==
    IF spans = <<>> THEN <<>>
    ELSE ColumnsOver(HeaderSpans(spans, margins, page_height), margins)

DEFAULT_ROW_SPACING == 1400

\* sorted(set(round(s["bbox"][1], 1) for s in spans))
YPositions(spans) == Sorted({ Round1(s.bbox[2]) : s \in Range(spans) })

\* The gaps between consecutive y positions, each rounded to one decimal.
Gaps(y_positions) ==
    [i \in 1..(Len(y_positions) - 1) |->
        Round1(y_positions[i + 1] - y_positions[i])]

\* How often the gap g occurs.
Occurrences(gaps, g) == Cardinality({ i \in 1..Len(gaps) : gaps[i] = g })

\* A slip: the last gap is returned.
MostCommonLastGap(gaps) == gaps[Len(gaps)]

\* Counter(gaps).most_common(1)[0][0]: the gap counted most often, and
\* among equally frequent gaps the one counted first.
MostCommon(gaps) ==
    gaps[CHOOSE i \in 1..Len(gaps) :
            /\ \A j \in 1..Len(gaps) :
                  Occurrences(gaps, gaps[j]) <= Occurrences(gaps, gaps[i])
            /\ \A j \in 1..(i - 1) :
                  Occurrences(gaps, gaps[j]) < Occurrences(gaps, gaps[i])]

\* _calculate_row_spacing
CalculateRowSpacing(spans) ==
    IF Len(spans) < 2 THEN DEFAULT_ROW_SPACING
    ELSE IF Len(YPositions(spans)) < 2 THEN DEFAULT_ROW_SPACING
    ELSE MostCommon(Gaps(YPositions(spans)))

\* The page rectangle: A4.
PAGE_RECT == [width |-> 59500, height |-> 84200]

\* _analyze_page_structure: margins, columns and row spacing of the page.
AnalyzePageStructure ==
    /\ page.columns = None
    /\ page' = [page EXCEPT
                   !.margins = Some(CalculateMargins(page.spans, PAGE_RECT.width,
                                                     PAGE_RECT.height)),
                   !.columns = Some(DetectColumns(
                                        page.spans,
                                        CalculateMargins(page.spans, PAGE_RECT.width,
                                                         PAGE_RECT.height),
                                        PAGE_RECT.height)),
                   !.row_spacing = Some(CalculateRowSpacing(page.spans))]
    /\ UNCHANGED <<processor, writer, parserVars, generatorVars>>

MaxSpans == 4
MaxRowSpans == 5

\* Spans of a header line and of a body row: two that round to the same
\* x, a chain of x positions 8 points apart, and one far to the right.
ColumnSpans ==
    { Span(1000, 5000, 3000, "Date"), Span(1004, 5000, 3000, ""),
      Span(1800, 5000, 4000, "Start"), Span(2600, 5000, 5000, "End"),
      Span(3410, 30000, 6000, "08:00"), Span(30000, 5000, 35000, "Total") }

\* Spans of one column at the row positions 100, 114, 114.04, 128, 142, 200.
RowSpans ==
    { Span(1000, y, 3000, "r") : y \in {10000, 11400, 11404, 12800, 14200, 20000} }

PageSpans ==
    { <<>> \o spans :
        spans \in UNION { [1..n -> ColumnSpans] : n \in 0..MaxSpans }
                  \cup UNION { [1..n -> RowSpans] : n \in 0..MaxRowSpans } }

InitPage ==
    /\ \E spans \in PageSpans : page = NewPage(spans)
    /\ writer = NewWriter
    /\ processor = IdleProcessor
    /\ ParserInit(<<>>)
    /\ heap = EmptyHeap
    /\ parsed_report = 0
    /\ varied_report = 0
    /\ generator = NewGenerator(MODERATE)
    /\ random_state = [stream |-> <<0, 0>>, pos |-> 0]
    /\ original = None

NextPage == AnalyzePageStructure

SpecPage == InitPage /\ [][NextPage]_vars

\* ------------------------------------------------- pdf reader: the text
\* A text is a sequence of runs <<c, n>>: the character c, n times.  The
\* characters are a letter, the space, the line feed, the carriage return,
\* the no-break space U+00A0 and the byte order mark U+FEFF.
LETTER == "a"
SPACE == " "
LF == "\n"
CR == "\r"
NBSP == "U+00A0"
BOM == "U+FEFF"

\* The characters str.strip() removes: str.isspace() is false of U+FEFF.
WHITESPACE == {SPACE, LF, CR, NBSP}

\* len(text)
TextLen(text) == Sum([i \in 1..Len(text) |-> text[i][2]] \o <<>>)

RECURSIVE lstrip(_)
lstrip(text) ==
    IF text = <<>> THEN <<>>
    ELSE IF Head(text)[1] \in WHITESPACE THEN lstrip(Tail(text))
    ELSE text

RECURSIVE rstrip(_)
rstrip(text) ==
    IF text = <<>> THEN <<>>
    ELSE IF text[Len(text)][1] \in WHITESPACE
    THEN rstrip(SubSeq(text, 1, Len(text) - 1))
    ELSE text

\* text.strip()
strip(text) == rstrip(lstrip(text))

RECURSIVE Coalesce(_)
\* Adjacent runs of one character are one run; runs of no character go.
Coalesce(text) ==
    IF text = <<>> THEN <<>>
    ELSE IF Head(text)[1] = "" THEN Coalesce(Tail(text))
    ELSE LET rest == Coalesce(Tail(text))
         IN  IF rest # <<>> /\ rest[1][1] = Head(text)[1]
             THEN <<<<Head(text)[1], Head(text)[2] + rest[1][2]>>>> \o Tail(rest)
             ELSE <<Head(text)>> \o rest

\* text.replace(old, new) for single characters; new may be "".
replace(text, old, new) ==
    Coalesce([i \in 1..Len(text) |->
                 IF text[i][1] = old THEN <<new, text[i][2]>> ELSE text[i]] \o <<>>)

\* re.sub(c + "+", c, text), which is also re.sub(c + "{2,}", c, text).
Squeeze(text, c) ==
    [i \in 1..Len(text) |-> IF text[i][1] = c THEN <<c, 1>> ELSE text[i]] \o <<>>

\* _sanitize_text
SanitizeText(text) ==
    IF text = <<>> THEN <<>>
    ELSE strip(Squeeze(Squeeze(replace(replace(replace(text, CR, SPACE), BOM, ""),
                                       NBSP, SPACE),
                               SPACE),
                       LF))

\* The backends in the order _extract_text calls them.
BACKENDS == <<"PyPDF2", "pdfplumber", "PyMuPDF">>

\* The length a text's stripped form must exceed.
MIN_TEXT_LENGTH == 100

\* The test _extract_text makes of what backend i did: outcome is None
\* when the backend raised, and else the text it returned.
Accepted(i, outcome) ==
    /\ outcome # None
    /\ Val(outcome) # <<>>
    /\ i < Len(BACKENDS) => TextLen(strip(Val(outcome))) > MIN_TEXT_LENGTH

\* The attempts _extract_text makes when backend i does outcomes[i]: the
\* backends up to the first accepted one.
Attempts(outcomes) ==
    LET n == IF \E i \in 1..Len(BACKENDS) : Accepted(i, outcomes[i])
             THEN CHOOSE i \in 1..Len(BACKENDS) :
                      /\ Accepted(i, outcomes[i])
                      /\ \A j \in 1..(i - 1) : ~Accepted(j, outcomes[j])
             ELSE Len(BACKENDS)
    IN  [i \in 1..n |-> [backend |-> BACKENDS[i], outcome |-> outcomes[i]]] \o <<>>

\* _extract_text: the sanitized text of the accepted attempt, else "".
ExtractText(attempts) ==
    IF Accepted(Len(attempts), attempts[Len(attempts)].outcome)
    THEN SanitizeText(Val(attempts[Len(attempts)].outcome))
    ELSE <<>>

RECURSIVE Letters(_)
\* n letters.
Letters(n) ==
    IF n = 0 THEN ""
    ELSE IF n = 1 THEN LETTER
    ELSE Letters(n \div 2) \o Letters(n - n \div 2)

RECURSIVE SplitLines(_)
\* text.split("\n")
SplitLines(text) ==
    IF \E i \in 1..Len(text) : text[i][1] = LF
    THEN LET i == CHOOSE k \in 1..Len(text) :
                      /\ text[k][1] = LF
                      /\ \A j \in 1..(k - 1) : text[j][1] # LF
         IN  <<SubSeq(text, 1, i - 1)>>
             \o SplitLines(IF text[i][2] = 1 THEN SubSeq(text, i + 1, Len(text))
                           ELSE <<<<LF, text[i][2] - 1>>>>
                                \o SubSeq(text, i + 1, Len(text)))
    ELSE <<text>>

\* line.split() of a line of letters and white space.
SplitWords(line) ==
    LET IsWord(run) == run[1] = LETTER
        words == SelectSeq(line, IsWord)
    IN  [j \in 1..Len(words) |-> Word(Letters(words[j][2]))] \o <<>>

\* The lines the parser keeps of a sanitized text: those that hold a word.
TextLines(text) ==
    LET NotBlank(line) == SplitWords(line) # <<>>
        lines == SelectSeq(SplitLines(text), NotBlank)
    IN  [i \in 1..Len(lines) |-> SplitWords(lines[i])] \o <<>>

\* What a backend can return: nothing, a few letters, 100 or 101 letters
\* alone or inside white space, two lines, 101 spaces, and 101 byte order
\* marks alone or after a letter.
BackendTexts ==
    { <<>>,
      << <<LETTER, 3>> >>,
      << <<LETTER, 100>> >>,
      << <<LETTER, 101>> >>,
      << <<SPACE, 1>>, <<LETTER, 100>>, <<CR, 1>> >>,
      << <<NBSP, 1>>, <<LETTER, 60>>, <<LF, 2>>, <<LETTER, 60>>, <<SPACE, 2>> >>,
      << <<SPACE, 101>> >>,
      << <<BOM, 101>> >>,
      << <<LETTER, 1>>, <<BOM, 100>> >> }

\* What a backend can do: raise, or return a text.
BackendOutcomes == {None} \cup { Some(text) : text \in BackendTexts }

\* Step 1 of process() with the reader's text extraction: _read_pdf calls
\* read_pdf, whose reader calls _extract_text.
ReadPdfExtracting ==
    /\ processor.pc = "read"
    /\ \E outcomes \in [1..Len(BACKENDS) -> BackendOutcomes] :
           LET reads == /\ processor.input_exists
                        /\ Lower(processor.input_suffix) = ".pdf"
               text == ExtractText(Attempts(outcomes))
               pdf_content == ReadPdfResult(processor.input_exists,
                                            processor.input_suffix,
                                            Some([text |-> TextLines(text)]))
               entered == [processor EXCEPT !.steps = Append(@, "_read_pdf"),
                                            !.pdf_content = pdf_content]
           IN  /\ processor' = IF pdf_content = None THEN Return(entered, FALSE)
                               ELSE [entered EXCEPT !.pc = "parse"]
               /\ page' = IF reads
                          THEN [page EXCEPT !.attempts = Attempts(outcomes),
                                            !.text = Some(text)]
                          ELSE page
    /\ UNCHANGED <<writer, parserVars, generatorVars>>

InitExtract ==
    /\ \E input_exists \in BOOLEAN, input_suffix \in {".pdf", ".PDF", ".txt"} :
           processor = NewProcessor(input_exists, input_suffix, MODERATE)
    /\ page = NoPage
    /\ writer = NewWriter
    /\ ParserInit(<<>>)
    /\ heap = EmptyHeap
    /\ parsed_report = 0
    /\ varied_report = 0
    /\ generator = NewGenerator(MODERATE)
    /\ random_state = [stream |-> <<0, 0>>, pos |-> 0]
    /\ original = None

NextExtract == ReadPdfExtracting \/ ParseReport \/ Exit

SpecExtract == InitExtract /\ [][NextExtract]_vars

\* ----------------------------------------------------------- pdf writer
\* reportlab's cm, 72 / 2.54 points, for a length given in millimetres: the
\* length in hundredths of a point.
Cm(mm) == Rat(mm * 72000, 254)

\* The default widths of the simple and of the detailed table.
SIMPLE_WIDTHS == <<Cm(25), Cm(18), Cm(20), Cm(20), Cm(20), Cm(25), Cm(25)>>
DETAILED_WIDTHS ==
    <<Cm(12), Cm(12), Cm(12), Cm(12), Cm(12), Cm(15), Cm(15), Cm(15), Cm(15), Cm(20)>>

\* The columns of the simple and of the detailed table.
SIMPLE_COLUMNS == 7
DETAILED_COLUMNS == 10

\* A slip: the widths of the structure are taken with preserve_layout off.
GetColumnWidthsAlwaysPreserving(preserve_layout, structure, num_columns) ==
    IF structure = None \/ Val(structure).columns = <<>> THEN None
    ELSE IF Len(Val(structure).columns) = num_columns
    THEN Some([i \in 1..num_columns |-> Val(structure).columns[i].width] \o <<>>)
    ELSE None

\* _get_column_widths_from_structure
GetColumnWidthsFromStructure(preserve_layout, structure, num_columns) ==
    IF ~preserve_layout \/ structure = None \/ Val(structure).columns = <<>>
    THEN None
    ELSE IF Len(Val(structure).columns) = num_columns
    THEN Some([i \in 1..num_columns |-> Val(structure).columns[i].width] \o <<>>)
    ELSE None

\* col_widths of _write_simple_template and _write_detailed_template.
ColWidths(preserve_layout, structure, num_columns, defaults) ==
    IF GetColumnWidthsFromStructure(preserve_layout, structure, num_columns) = None
    THEN defaults
    ELSE Val(GetColumnWidthsFromStructure(preserve_layout, structure, num_columns))

\* PDFWriter.write
WriteReport(template_type, structure, preserve_layout) ==
    [structure |-> structure, preserve_layout |-> preserve_layout,
     template_type |-> Some(template_type),
     layout |-> Some(IF template_type = DETAILED THEN DETAILED ELSE SIMPLE),
     col_widths |->
         Some(IF template_type = DETAILED
              THEN ColWidths(preserve_layout, structure, DETAILED_COLUMNS,
                             DETAILED_WIDTHS)
              ELSE ColWidths(preserve_layout, structure, SIMPLE_COLUMNS,
                             SIMPLE_WIDTHS))]

\* pdf_content.structures[0], and None when the analysis gave no structure.
FirstStructure ==
    IF page.columns = None THEN None
    ELSE Some([margins |-> Val(page.margins), columns |-> Val(page.columns),
               row_spacing |-> Val(page.row_spacing)])

\* write_pdf(output_path, report, structure, preserve_layout) as _write_pdf
\* calls it, for a report of each template type.
Write ==
    /\ writer.layout = None
    /\ \E template_type \in {SIMPLE, DETAILED, UNKNOWN}, preserve_layout \in BOOLEAN :
           writer' = WriteReport(template_type, FirstStructure, preserve_layout)
    /\ UNCHANGED <<processor, page, parserVars, generatorVars>>

MaxColumns == 11

\* A header line of n spans, step apart from x = 10pt on.
HeaderLine(n, step) ==
    [i \in 1..n |-> Span(1000 + (i - 1) * step, 5000, 1000 + (i - 1) * step + 2000, "h")]
    \o <<>>

\* Pages of no span and of 1 to MaxColumns columns, 30pt or 45pt apart.
WriterPages ==
    { HeaderLine(n, step) : n \in 0..MaxColumns, step \in {3000, 4500} }

InitWrite ==
    /\ \E spans \in WriterPages : page = NewPage(spans)
    /\ writer = NewWriter
    /\ processor = IdleProcessor
    /\ ParserInit(<<>>)
    /\ heap = EmptyHeap
    /\ parsed_report = 0
    /\ varied_report = 0
    /\ generator = NewGenerator(MODERATE)
    /\ random_state = [stream |-> <<0, 0>>, pos |-> 0]
    /\ original = None

NextWrite == AnalyzePageStructure \/ Write

SpecWrite == InitWrite /\ [][NextWrite]_vars

\* ---------------------------------------------------- generator claims
Returned == varied_report # 0

VariedValues == RecordValues(heap, varied_report)

\* Minutes of a time the record holds, when it is present and parses.
Minutes(time) == Val(strptime(Val(time)))

\* C1: generate_variation returns as many records as it was given, in the
\* same order: record i of the result is a record of the same class that
\* carries the date and weekday of record i of the input.
C1_SameRecordsSameOrder ==
    Returned =>
        /\ Len(VariedValues) = Len(original.records)
        /\ \A i \in 1..Len(original.records) :
              /\ i <= Len(VariedValues)
              /\ VariedValues[i].date = original.records[i].date
              /\ VariedValues[i].day_of_week = original.records[i].day_of_week
              /\ DOMAIN VariedValues[i] = DOMAIN original.records[i]

\* A report of two rows, the second with a start time that does not parse,
\* has been varied.
C1_Witness ==
    /\ Returned
    /\ Len(original.records) = 2
    /\ ~Parses(original.records[2].start_time)
    /\ VariedValues[1].start_time # original.records[1].start_time

\* C2: whenever the start and end of a record both parse, the varied end
\* is strictly later than the varied start on the same day.
C2_EndStrictlyAfterStart ==
    Returned =>
        \A i \in 1..Len(original.records) :
            (Parses(original.records[i].start_time)
             /\ Parses(original.records[i].end_time))
            => Minutes(VariedValues[i].end_time) > Minutes(VariedValues[i].start_time)

\* C3: generate_variation leaves the report it is given as it was, every
\* record and every metadata field, and the report it returns shares no
\* object with it.
C3_InputNeverMutated ==
    /\ ReportValue(heap, parsed_report) = original
    /\ Returned =>
          Reachable(heap, {parsed_report}) \cap Reachable(heap, {varied_report}) = {}

\* A returned report whose totals and first record differ from the input's.
C3_Witness ==
    /\ Returned
    /\ original.records # <<>>
    /\ heap[heap[varied_report].metadata].total_hours # original.metadata.total_hours
    /\ heap[heap[varied_report].metadata].total_salary # original.metadata.total_salary
    /\ VariedValues[1] # original.records[1]

\* C4: in a returned detailed record that has hours_100, hours_125 and
\* hours_150, the three add up to total.
C4_TiersAddUpToTotal ==
    Returned =>
        \A i \in 1..Len(VariedValues) :
            LET r == VariedValues[i]
            IN  (/\ HasAttr(r, "hours_100")
                 /\ r.hours_100 # None /\ r.hours_125 # None /\ r.hours_150 # None)
                => /\ r.total # None
                   /\ Val(r.hours_100) + Val(r.hours_125) + Val(r.hours_150) = Val(r.total)

\* A returned detailed record with hours in all three tiers, from a row
\* whose parsed tier columns did not add up to its total.
C4_Witness ==
    /\ Returned
    /\ HasAttr(VariedValues[1], "hours_100")
    /\ Val(VariedValues[1].hours_150) > 0
    /\ Val(VariedValues[1].hours_125) > 0
    /\ original.records[1].hours_125 = None

\* C5: a record whose start or end time does not parse keeps its original
\* start_time, end_time, total and hours.
C5_UnparseableCarriedThrough ==
    Returned =>
        \A i \in 1..Len(original.records) :
            (~Parses(original.records[i].start_time)
             \/ ~Parses(original.records[i].end_time))
            => /\ VariedValues[i].start_time = original.records[i].start_time
               /\ VariedValues[i].end_time = original.records[i].end_time
               /\ VariedValues[i].total = original.records[i].total
               /\ VariedValues[i].hours = original.records[i].hours

\* C6: minimal is {5, 5, 2}, significant is {30, 30, 10}, and moderate and
\* every other level name are {15, 15, 5}.
C6_ConfigByLevel ==
    generator.config =
        IF generator.variation_level = "minimal"
        THEN [start_minutes |-> 5, end_minutes |-> 5, break_minutes |-> 2]
        ELSE IF generator.variation_level = "significant"
        THEN [start_minutes |-> 30, end_minutes |-> 30, break_minutes |-> 10]
        ELSE [start_minutes |-> 15, end_minutes |-> 15, break_minutes |-> 5]

\* A generator made with an unrecognised level name has varied a report by
\* the moderate amount.
C6_Witness ==
    /\ generator.variation_level \notin {"minimal", "moderate", "significant"}
    /\ Returned
    /\ original.records # <<>>
    /\ Parses(original.records[1].start_time)
    /\ Minutes(VariedValues[1].start_time)
         \in { Minutes(original.records[1].start_time) - 15,
               Minutes(original.records[1].start_time) + 15 }

\* ------------------------------------------------------- parser claims
Parsed == result # None

Report == Val(result)

\* The lines that open a logical row: the first line and every line that
\* begins with a date.
RowStarts(lines) == { i \in 1..Len(lines) : i = 1 \/ MatchDate(lines[i]) }

\* The last line of the row that line i opens, starts being the lines
\* that open a row.
RowEnd(lines, starts, i) ==
    LET later == { j \in starts : j > i }
    IN  IF later = {} THEN Len(lines)
        ELSE (CHOOSE j \in later : \A n \in later : j <= n) - 1

\* Lines i to j joined by blanks.
Join(lines, i, j) ==
    LET Step(joined, line) == joined \o line
    IN  Fold(Step, <<>>, SubSeq(lines, i, j))

\* The logical row that line i belongs to holds a date.
RowHasDate(lines, i) ==
    LET starts == RowStarts(lines)
        before == { n \in starts : n <= i }
        s == CHOOSE n \in before : \A t \in before : t <= n
    IN  \E j \in s..RowEnd(lines, starts, s) : findall(DATE, lines[j]) # <<>>

\* The line holds at least two times and at least one decimal.
TwoTimesOneDecimal(line) ==
    Len(findall(TIME, line)) >= 2 /\ Len(findall(DECIMAL, line)) >= 1

\* C7: the merged output has one logical row per date-prefixed line (and
\* one for the lines before the first of them); each row is its opening
\* line followed, in order, by every line up to the next date-prefixed
\* line or the end of the input; no line's content is lost or reordered.
C7_LineMerging ==
    Parsed =>
        LET starts == RowStarts(parser.lines)
        IN  /\ Len(merged) = Cardinality(starts)
            /\ \A i \in starts :
                  merged[Cardinality({ s \in starts : s <= i })]
                      = Join(parser.lines, i, RowEnd(parser.lines, starts, i))
            /\ Join(merged, 1, Len(merged))
                  = Join(parser.lines, 1, Len(parser.lines))

\* A date-prefixed line followed by two lines that do not begin with a
\* date has been merged into one row holding the three in order.
C7_Witness ==
    /\ Parsed
    /\ Len(parser.lines) = 3
    /\ MatchDate(parser.lines[1])
    /\ ~MatchDate(parser.lines[2])
    /\ ~MatchDate(parser.lines[3])
    /\ parser.lines[2] # parser.lines[3]
    /\ merged = <<parser.lines[1] \o parser.lines[2] \o parser.lines[3]>>

\* C8 as stated: a text classified UNKNOWN that holds a line with at least
\* two times and at least one decimal yields at least one record.
C8_UnknownWithTimesYieldsRecord ==
    (/\ Parsed
     /\ Report.template_type = UNKNOWN
     /\ \E i \in 1..Len(parser.lines) : TwoTimesOneDecimal(parser.lines[i]))
    => Len(Report.records) >= 1

\* C8: a text classified UNKNOWN that holds a line with at least two times
\* and at least one decimal, in a logical row that holds a date, yields at
\* least one record, and the records come from the simple grammar, which
\* is the only one tried.
C8_UnknownWithDatedRowYieldsRecord ==
    (/\ Parsed
     /\ Report.template_type = UNKNOWN
     /\ \E i \in 1..Len(parser.lines) :
           /\ TwoTimesOneDecimal(parser.lines[i])
           /\ RowHasDate(parser.lines, i))
    => /\ Len(Report.records) >= 1
       /\ tried = <<SIMPLE>>
       /\ \A r \in 1..Len(Report.records) : ~HasAttr(Report.records[r], "break_time")

\* A row with a date, two times and a decimal behind the lines the
\* classifier looks at: the template is UNKNOWN and a record is returned.
C8_Witness ==
    /\ Parsed
    /\ Report.template_type = UNKNOWN
    /\ Len(parser.lines) > STRUCTURE_LINES
    /\ \E i \in 1..Len(parser.lines) :
          /\ TwoTimesOneDecimal(parser.lines[i])
          /\ RowHasDate(parser.lines, i)
    /\ Len(Report.records) >= 1

\* C9 as stated: whenever parse() ends with no record, the report has an
\* empty record list and the template type UNKNOWN.
C9_NoRecordsMeansUnknown ==
    (Parsed /\ parser.records = <<>>)
    => /\ Report.records = <<>>
       /\ Report.template_type = UNKNOWN

\* C9: whenever parse() ends with no record, the report has an empty
\* record list and the template type the classifier chose: UNKNOWN when
\* both grammars were tried, SIMPLE or DETAILED when that grammar alone
\* was tried and found nothing.
C9_NoRecordsKeepsClassifiedTemplate ==
    (Parsed /\ parser.records = <<>>)
    => /\ Report.records = <<>>
       /\ Report.metadata.template_type = Report.template_type
       /\ tried \in {<<SIMPLE>>, <<DETAILED>>, <<SIMPLE, DETAILED>>}
       /\ (tried = <<SIMPLE, DETAILED>>) = (Report.template_type = UNKNOWN)
       /\ Len(tried) = 1 => Report.template_type = tried[1]

\* A text classified SIMPLE from which the simple grammar took no record.
C9_Witness ==
    /\ Parsed
    /\ parser.lines # <<>>
    /\ parser.records = <<>>
    /\ Report.template_type = SIMPLE
    /\ tried = <<SIMPLE>>

\* The total_salary values the metadata patterns find in the lines that
\* _extract_metadata reads.
SalariesInText ==
    { Val(m) : m \in
        { Search(labels, AMOUNT, parser.lines[i]) :
            labels \in {TOTAL_SALARY_LABELS, CURRENCY_LABELS},
            i \in 1..Min(METADATA_LINES, Len(parser.lines)) } \ {None} }

\* C10: when no total_salary is found in the text and hourly_rate and
\* total_hours are both known, total_salary is hourly_rate x total_hours
\* rounded to 2 decimals; a total_salary found in the text is the one the
\* report carries.
C10_TotalsReconciliation ==
    Parsed =>
        /\ (/\ SalariesInText = {}
            /\ Report.metadata.hourly_rate # None
            /\ Report.metadata.total_hours # None)
           => /\ Report.metadata.total_salary # None
              /\ Val(Report.metadata.total_salary)
                   \in Round2Set(Val(Report.metadata.hourly_rate)
                                 * Val(Report.metadata.total_hours))
        /\ SalariesInText # {}
           => /\ Report.metadata.total_salary # None
              /\ Val(Report.metadata.total_salary) \in SalariesInText

\* --------------------------------------------------------- driver claims
\* The helper has been entered in this run.
Entered(step) ==
    \E i \in 1..Len(processor.steps) : processor.steps[i] = step

InputMissing == ~processor.input_exists

NotPdf == Lower(processor.input_suffix) # ".pdf"

NoText ==
    processor.pdf_content # None /\ Val(processor.pdf_content).text = <<>>

ZeroRecordsParsed == processor.records_found = Some(0)

RenderingFailed ==
    processor.write_outcome # None /\ Val(processor.write_outcome) # "written"

\* C11: process() returns False, and main() exits with code 1, whenever
\* zero records were parsed or rendering failed; when the input is missing,
\* is not a PDF, has no text or yields zero records, the variation and
\* write steps are never entered and no output file is written.
C11_FailureReported ==
    /\ (processor.pc \in {"return", "exited"}
        /\ (ZeroRecordsParsed \/ RenderingFailed))
       => processor.success = Some(FALSE)
    /\ (processor.pc = "exited" /\ (ZeroRecordsParsed \/ RenderingFailed))
       => processor.exit_code = Some(1)
    /\ (InputMissing \/ NotPdf \/ NoText \/ ZeroRecordsParsed)
       => /\ ~Entered("_create_variation")
          /\ ~Entered("_write_pdf")
          /\ ~processor.output_written
          /\ processor.varied_report = None

\* A run on a PDF with text that holds no record has exited with code 1.
C11_Witness ==
    /\ processor.pc = "exited"
    /\ processor.exit_code = Some(1)
    /\ ~NoText
    /\ ZeroRecordsParsed
    /\ processor.steps = <<"_read_pdf", "_parse_report">>

\* ------------------------------------------------------- pdf reader claims
\* The spans with those at positions i and i + 1 exchanged.
Swapped(spans, i) ==
    [k \in 1..Len(spans) |->
        IF k = i THEN spans[i + 1] ELSE IF k = i + 1 THEN spans[i] ELSE spans[k]]

\* How many of the header spans start at x, for every x.
HeaderXBag(spans) ==
    LET header == HeaderSpans(spans, Val(page.margins), PAGE_RECT.height)
    IN  [x \in { s.bbox[1] : s \in Range(header) } |->
            Cardinality({ k \in 1..Len(header) : header[k].bbox[1] = x })]

\* The x values of the columns, left to right.
XsOf(columns) == [i \in 1..Len(columns) |-> columns[i].x]

\* The columns _detect_columns finds in the spans, under the page's margins.
ColumnsOf(spans) == DetectColumns(spans, Val(page.margins), PAGE_RECT.height)

\* The sorted distinct rounded x positions of the page's header.
HeaderXs == XPositions(HeaderSpans(page.spans, Val(page.margins), PAGE_RECT.height))

\* C12: exchanging two neighbouring spans, which leaves the multiset of
\* header x positions as it was, leaves the number of columns and their x
\* values as they were (so every permutation does); there is one column
\* more than there are gaps wider than 8pt between the sorted x positions;
\* and the columns' x values increase strictly from left to right.
C12_ColumnsOrderIndependent ==
    page.columns # None =>
        /\ \A i \in 1..(Len(page.spans) - 1) :
              HeaderXBag(Swapped(page.spans, i)) = HeaderXBag(page.spans)
                  => XsOf(ColumnsOf(Swapped(page.spans, i)))
                         = XsOf(Val(page.columns))
        /\ page.spans # <<>> =>
              Len(Val(page.columns))
                  = 1 + Cardinality({ k \in 1..(Len(HeaderXs) - 1) :
                            HeaderXs[k + 1] - HeaderXs[k] > CLUSTER_TOLERANCE })
        /\ \A i, j \in 1..Len(Val(page.columns)) :
              i < j => RatLess(Val(page.columns)[i].x, Val(page.columns)[j].x)

\* The columns of a page of three or more spans that do not come in the
\* order of their x are found: there are two or more of them, and one is
\* the mean of several x positions.
C12_Witness ==
    /\ page.columns # None
    /\ Len(page.spans) >= 3
    /\ \E i \in 1..(Len(page.spans) - 1) :
          page.spans[i].bbox[1] > page.spans[i + 1].bbox[1]
    /\ Len(Val(page.columns)) >= 2
    /\ \E i \in 1..Len(Val(page.columns)) :
          Val(page.columns)[i].x.d >= 2

\* The distinct y positions of the page's spans, rounded to one decimal.
DistinctYs == { Round1(s.bbox[2]) : s \in Range(page.spans) }

\* The gap from the y position y to the next one below it on the page.
GapAfter(y) == SetMin({ u \in DistinctYs : u > y }) - y

\* How many pairs of consecutive y positions are the gap g apart.
Frequency(g) ==
    Cardinality({ y \in DistinctYs \ {SetMax(DistinctYs)} : GapAfter(y) = g })

\* The y positions 100, 114, 128, 142 and 200.
ExampleYs == {10000, 11400, 12800, 14200, 20000}

\* C13: the row spacing of an analysed page is 14.0 when its spans have
\* fewer than two distinct rounded y positions; otherwise it is a gap
\* between consecutive distinct y positions that no other gap occurs more
\* often than, and it is positive; the y positions 100, 114, 128, 142 and
\* 200 give 14.0.
C13_RowSpacingIsModalGap ==
    page.row_spacing # None =>
        /\ Cardinality(DistinctYs) < 2
              => Val(page.row_spacing) = DEFAULT_ROW_SPACING
        /\ Cardinality(DistinctYs) >= 2
              => /\ Frequency(Val(page.row_spacing)) >= 1
                 /\ \A y \in DistinctYs \ {SetMax(DistinctYs)} :
                       Frequency(GapAfter(y)) <= Frequency(Val(page.row_spacing))
                 /\ Val(page.row_spacing) > 0
        /\ DistinctYs = ExampleYs => Val(page.row_spacing) = 1400

\* The row spacing of a page with the y positions 100, 114, 128, 142 and
\* 200 is computed, and it is 14.0.
C13_Witness ==
    /\ page.row_spacing # None
    /\ DistinctYs = ExampleYs
    /\ Val(page.row_spacing) = 1400

\* --------------------------------------------- generator claims: the times
Abs(v) == IF v < 0 THEN 0 - v ELSE v

\* The break of a record in minutes: 0 when it has none that parses.
BreakOf(r) ==
    IF HasAttr(r, "break_time") /\ Parses(r.break_time)
    THEN Minutes(r.break_time) ELSE 0

\* Record i of the input is inside the window in which no clamp applies:
\* its start s has 06:00 + j <= s <= 10:00 - j, and its end e has
\* e - j >= the varied start and e + j <= 23:00.
InsideWindow(i, j) ==
    /\ Parses(original.records[i].start_time)
    /\ Parses(original.records[i].end_time)
    /\ 6 * 60 + j <= Minutes(original.records[i].start_time)
    /\ Minutes(original.records[i].start_time) <= 10 * 60 - j
    /\ Minutes(original.records[i].end_time) - j
           >= Minutes(VariedValues[i].start_time)
    /\ Minutes(original.records[i].end_time) + j <= 23 * 60

\* C14: a record inside the window is varied by at most j minutes at its
\* start and at its end, j being the level's jitter, and its varied total
\* is the hours from the varied start to the varied end less the varied
\* break.
C14_JitterBound ==
    Returned =>
        \A i \in 1..Len(original.records) :
            InsideWindow(i, generator.config.start_minutes)
            => /\ Abs(Minutes(VariedValues[i].start_time)
                      - Minutes(original.records[i].start_time))
                     <= generator.config.start_minutes
               /\ Abs(Minutes(VariedValues[i].end_time)
                      - Minutes(original.records[i].end_time))
                     <= generator.config.end_minutes
               /\ VariedValues[i].total =
                     Some(RoundHours(Max(0, Minutes(VariedValues[i].end_time)
                                            - Minutes(VariedValues[i].start_time)
                                            - BreakOf(VariedValues[i]))))

\* ------------------------------------------- generator claims: the tiers
\* The tiers of the record are those of its total under the break points
\* first and second, in hundredths of an hour.
TiersAt(r, first, second) ==
    LET total == Val(r.total)
    IN  /\ r.hours_100 = Some(IF total <= first THEN total ELSE first)
        /\ r.hours_125 = Some(IF total <= first THEN 0
                              ELSE IF total <= second THEN total - first
                              ELSE second - first)
        /\ r.hours_150 = Some(IF total <= second THEN 0 ELSE total - second)

\* The tiers of record i were recomputed: it carries the tier fields and
\* has a start and an end time.
Recomputed(i) ==
    /\ HasAttr(VariedValues[i], "hours_100")
    /\ TruthyStr(VariedValues[i].start_time)
    /\ TruthyStr(VariedValues[i].end_time)

\* C15 as claimed: the recomputed tiers are those of the total under the
\* break points 8 and 10 hours.
C15_TiersAt8And10 ==
    Returned =>
        \A i \in 1..Len(VariedValues) :
            Recomputed(i) => TiersAt(VariedValues[i], 800, 1000)

\* C15, amended: the recomputed tiers are those of the total under the
\* break points 9 and 11 hours: a total of at most 9 is all hours_100;
\* a total of at most 11 is 9 at hours_100 and the rest at hours_125; a
\* larger total is 9 at hours_100, 2 at hours_125 and the rest at hours_150.
C15_TiersAt9And11 ==
    Returned =>
        \A i \in 1..Len(VariedValues) :
            Recomputed(i) => TiersAt(VariedValues[i], 900, 1100)

\* A varied record whose total lies between 9 and 10 hours, where the two
\* tier tables differ in both hours_100 and hours_125.
C15_Witness ==
    /\ Returned
    /\ Recomputed(1)
    /\ Val(VariedValues[1].total) > 900
    /\ Val(VariedValues[1].total) < 1000
    /\ VariedValues[1].hours_100 = Some(900)

\* The minutes from start to end, the end taken on the next day only when
\* it is earlier than the start.
ShiftMinutes(start, end) ==
    IF end < start THEN end + MinutesPerDay - start ELSE end - start

\* C16: the total of a varied record whose start and end parse is the
\* hours from start to end less the break, not below 0 and rounded to two
\* decimals, the end counting as next-day only when it is earlier than the
\* start; so it is never negative, and 0 when the break is longer than
\* the shift.
C16_TotalIsShiftLessBreak ==
    Returned =>
        \A i \in 1..Len(VariedValues) :
            (Parses(VariedValues[i].start_time) /\ Parses(VariedValues[i].end_time))
            => LET shift == ShiftMinutes(Minutes(VariedValues[i].start_time),
                                         Minutes(VariedValues[i].end_time))
               IN  /\ VariedValues[i].total =
                         Some(RoundHours(Max(0, shift - BreakOf(VariedValues[i]))))
                   /\ Val(VariedValues[i].total) >= 0
                   /\ BreakOf(VariedValues[i]) > shift
                         => VariedValues[i].total = Some(0)

\* ------------------------------------------- generator claims: the break
\* The break the tiers of the claim give a shift of the given minutes.
TierBreak(shift) ==
    IF shift <= 4 * 60 THEN 0
    ELSE IF shift <= 6 * 60 THEN 15
    ELSE IF shift <= 8 * 60 THEN 30
    ELSE 45

\* C17 as claimed: the break of a varied record whose start and end parse
\* is the one the duration tiers give its shift.
C17_BreakByDurationTiers ==
    Returned =>
        \A i \in 1..Len(VariedValues) :
            (Parses(VariedValues[i].start_time) /\ Parses(VariedValues[i].end_time))
            => BreakOf(VariedValues[i])
                   = TierBreak(ShiftMinutes(Minutes(VariedValues[i].start_time),
                                            Minutes(VariedValues[i].end_time)))

\* The duration _calculate_hours measures, in minutes.
DurationMinutes(start, end) ==
    IF end <= start THEN end + MinutesPerDay - start ELSE end - start

\* C17, amended: the break of a varied record is its parsed break_time
\* moved by at most the level's break jitter, and left as parsed when the
\* moved time's hour is above 2; a break_time that does not parse is
\* kept as it is and counts as no break; and the total of a record whose
\* start and end parse is its duration less that break.
C17_BreakIsParsedBreakVaried ==
    Returned =>
        \A i \in 1..Len(VariedValues) :
            /\ (HasAttr(original.records[i], "break_time")
                /\ Parses(original.records[i].break_time))
               => /\ Parses(VariedValues[i].break_time)
                  /\ Abs(Minutes(VariedValues[i].break_time)
                         - Minutes(original.records[i].break_time))
                        <= generator.config.break_minutes
                  /\ \/ Minutes(VariedValues[i].break_time) \div 60 <= 2
                     \/ Minutes(VariedValues[i].break_time)
                            = Minutes(original.records[i].break_time)
            /\ (HasAttr(original.records[i], "break_time")
                /\ ~Parses(original.records[i].break_time))
               => VariedValues[i].break_time = original.records[i].break_time
            /\ (Parses(VariedValues[i].start_time) /\ Parses(VariedValues[i].end_time))
               => VariedValues[i].total =
                      Some(RoundHours(Max(0,
                          DurationMinutes(Minutes(VariedValues[i].start_time),
                                          Minutes(VariedValues[i].end_time))
                          - BreakOf(VariedValues[i]))))

\* A varied record of more than 8 hours whose break is not the 45 minutes
\* of the tiers but its parsed 30 minutes moved by the draw.
C17_Witness ==
    /\ Returned
    /\ HasAttr(original.records[1], "break_time")
    /\ original.records[1].break_time = Some(T(2, 0, 30))
    /\ Parses(VariedValues[1].start_time)
    /\ Parses(VariedValues[1].end_time)
    /\ Minutes(VariedValues[1].end_time) - Minutes(VariedValues[1].start_time) > 8 * 60
    /\ Minutes(VariedValues[1].break_time) = 33

\* ------------------------------------------- generator claims: the clamp
\* A time in minutes, which may lie before 00:00 or after 23:59, brought
\* into [06:00, 10:00] without wrapping around midnight.
ClampedStart(minutes) ==
    IF minutes < 6 * 60 THEN 6 * 60
    ELSE IF minutes > 10 * 60 THEN 10 * 60
    ELSE minutes

\* C18: the varied start of a record whose start parses lies in
\* [06:00, 10:00], and it is the original start moved by some jitter d in
\* [-j, +j]: 06:00 when that is earlier than 06:00, also when it is before
\* 00:00, and 10:00 when that is later than 10:00.
C18_StartClamped ==
    Returned =>
        \A i \in 1..Len(original.records) :
            Parses(original.records[i].start_time)
            => /\ Parses(VariedValues[i].start_time)
               /\ Minutes(VariedValues[i].start_time) >= 6 * 60
               /\ Minutes(VariedValues[i].start_time) <= 10 * 60
               /\ Minutes(VariedValues[i].start_time)
                     \in { ClampedStart(Minutes(original.records[i].start_time) + d) :
                             d \in RandintRange(generator.config.start_minutes) }

\* ------------------------------------------ generator claims: the totals
\* The metadata of the returned report.
VariedMetadata == heap[heap[varied_report].metadata]

\* The sum of the totals of the records, in hundredths of an hour.
SumTotals(recs) ==
    Sum([i \in 1..Len(recs) |->
            IF recs[i].total = None THEN 0 ELSE Val(recs[i].total)] \o <<>>)

DetailCount == KeywordCount(DETAILED_KEYWORDS, WordsOf(parser.lines))
SimpleCount == KeywordCount(SIMPLE_KEYWORDS, WordsOf(parser.lines))

\* The largest number of elements in one of the first 20 lines.
ColumnEstimate ==
    SetMax({0} \cup { Elements(parser.lines[i]) :
                        i \in 1..Min(Len(parser.lines), COLUMN_LINES) })

\* C20 as claimed: a text with fewer than 3 detail keywords and 2 or more
\* simple keywords is SIMPLE whatever its column estimate, and a text with
\* 3 or more detail keywords is DETAILED.
C20_KeywordsDecideFirst ==
    Parsed =>
        /\ DetailCount >= 3 => Report.template_type = DETAILED
        /\ (DetailCount < 3 /\ SimpleCount >= 2) => Report.template_type = SIMPLE

\* C20, amended: a text with 3 or more detail keywords or a column
\* estimate of 10 or more is DETAILED; a text with fewer than 3 detail
\* keywords and 2 or more simple keywords is SIMPLE when its column
\* estimate is below 10.
C20_DetailedSignalsDecideFirst ==
    Parsed =>
        /\ (DetailCount >= 3 \/ ColumnEstimate >= 10)
              => Report.template_type = DETAILED
        /\ (DetailCount < 3 /\ ColumnEstimate < 10 /\ SimpleCount >= 2)
              => Report.template_type = SIMPLE

\* A parsed text with no detail keyword, two simple keywords and a line of
\* ten or more elements, classified DETAILED.
C20_Witness ==
    /\ Parsed
    /\ DetailCount = 0
    /\ SimpleCount >= 2
    /\ ColumnEstimate >= 10
    /\ Report.template_type = DETAILED

\* ------------------------------------------ parser claims: the stages
\* The stage a parser is in: 0 unclassified, 1 classified, 2 records
\* extracted, 3 totals reconciled.
Stage(p) ==
    IF p.pc = "identify" THEN 0
    ELSE IF p.pc \in {"metadata", "records", "detailed"} THEN 1
    ELSE IF p.pc = "totals" THEN 2
    ELSE 3

\* The grammars that have run are those the template allows: none before
\* the records stage, the template's own for SIMPLE and DETAILED, and for
\* UNKNOWN the simple one, followed by the detailed one exactly when the
\* simple one took no record; the records are those of the first grammar
\* that took any, and they are the records returned.
GrammarsInOrder ==
    /\ parser.pc \in {"identify", "metadata", "records"} => tried = <<>>
    /\ parser.pc = "detailed"
          => /\ parser.metadata.template_type = UNKNOWN
             /\ tried = <<SIMPLE>>
             /\ parser.records = <<>>
    /\ (Stage(parser) >= 2 /\ parser.metadata.template_type # UNKNOWN)
          => /\ tried = <<parser.metadata.template_type>>
             /\ parser.records
                   = GrammarRecords(parser.metadata.template_type, merged)
    /\ (Stage(parser) >= 2 /\ parser.metadata.template_type = UNKNOWN)
          => IF ParseSimpleRecords(merged) # <<>>
             THEN tried = <<SIMPLE>>
                  /\ parser.records = ParseSimpleRecords(merged)
             ELSE tried = <<SIMPLE, DETAILED>>
                  /\ parser.records = ParseDetailedRecords(merged)
    /\ Stage(parser) = 3
          => /\ result # None
             /\ Val(result).records = parser.records
             /\ Val(result).template_type = parser.metadata.template_type

\* C21: no step of parse() takes the parser back to an earlier stage or
\* changes the template once it is classified, and after every step the
\* grammars that have run are those the template allows, in order.
C21_StagesInOrder ==
    /\ [][/\ Stage(parser') >= Stage(parser)
          /\ Stage(parser) >= 1
                => parser'.metadata.template_type
                       = parser.metadata.template_type]_vars
    /\ []GrammarsInOrder

\* A text classified UNKNOWN has been parsed to the end, both grammars
\* having run, the simple one first.
C21_Witness ==
    /\ parser.pc = "done"
    /\ parser.lines # <<>>
    /\ parser.metadata.template_type = UNKNOWN
    /\ tried = <<SIMPLE, DETAILED>>
    /\ result # None

\* ---------------------------------------- parser claims: the metadata
\* The patterns of each field, in the order _extract_metadata tries them.
FIELD_PATTERNS ==
    [total_hours |-> << <<TOTAL_HOURS_LABELS, DIGITS_POINTS>>,
                        <<DAYS_LABELS, DIGITS>> >>,
     total_salary |-> << <<TOTAL_SALARY_LABELS, AMOUNT>>,
                         <<CURRENCY_LABELS, AMOUNT>> >>,
     hourly_rate |-> << <<HOURLY_RATE_LABELS, DIGITS_POINTS>> >>,
     required_hours |-> << <<REQUIRED_HOURS_LABELS, DIGITS_POINTS>> >>]

\* The values the patterns of a field match in the lines that
\* _extract_metadata reads, line by line and pattern by pattern.
FieldMatches(field) ==
    LET patterns == FIELD_PATTERNS[field]
        lines == Prefix(parser.lines, METADATA_LINES)
        Match(k) == Search(patterns[((k - 1) % Len(patterns)) + 1][1],
                           patterns[((k - 1) % Len(patterns)) + 1][2],
                           lines[((k - 1) \div Len(patterns)) + 1])
        Found(m) == m # None
    IN  SelectSeq([k \in 1..(Len(lines) * Len(patterns)) |-> Match(k)], Found)

\* C23: when _extract_metadata has run, each of total_hours, total_salary,
\* hourly_rate and required_hours holds the first value its patterns
\* matched, whatever that value is, and is unset when they matched none.
C23_FirstMatchWins ==
    parser.pc \in {"records", "detailed", "totals"} =>
        \A field \in DOMAIN FIELD_PATTERNS :
            parser.metadata[field] =
                IF FieldMatches(field) = <<>> THEN None
                ELSE FieldMatches(field)[1]

\* ----------------------------------------- parser claims: the records
\* The HH:MM tokens and the date tokens of a line, left to right.
TimeTokens(line) == LET IsTime(tok) == tok.k = "time" IN SelectSeq(line, IsTime)
DateTokens(line) == LET IsDate(tok) == tok.k = "date" IN SelectSeq(line, IsDate)

\* The merged lines that hold a date and two or more HH:MM tokens.
DataRows ==
    LET IsRow(line) == DateTokens(line) # <<>> /\ Len(TimeTokens(line)) >= 2
    IN  SelectSeq(merged, IsRow)

\* C22: the records parse() returns are, in order, one for each merged
\* line with a date and two or more HH:MM tokens, so a merged line with
\* fewer than two yields none; each has the date of its line and the
\* line's first and second HH:MM tokens as start_time and end_time.
C22_RecordsFromDataRows ==
    Parsed =>
        /\ Len(Report.records) = Len(DataRows)
        /\ \A i \in 1..Len(Report.records) :
              /\ i <= Len(DataRows)
              /\ Report.records[i].date = DateTokens(DataRows[i])[1].text
              /\ Report.records[i].start_time
                    = Some(TimeTokens(DataRows[i])[1].text)
              /\ Report.records[i].end_time
                    = Some(TimeTokens(DataRows[i])[2].text)

\* A parsed text with a merged line of fewer than two HH:MM tokens that
\* gave no record and one of three that gave a record.
C22_Witness ==
    /\ Parsed
    /\ Len(Report.records) = 1
    /\ Len(merged) >= 2
    /\ \E i \in 1..Len(merged) :
          /\ DateTokens(merged[i]) # <<>>
          /\ Len(TimeTokens(merged[i])) = 1
    /\ Len(TimeTokens(DataRows[1])) = 3
    /\ Report.records[1].start_time # Report.records[1].end_time


\* ------------------------------------------------- text extraction claims
\* A backend fails that raises or yields no more than MIN_TEXT_LENGTH
\* characters inside its white space.
BackendFailed(outcome) ==
    outcome = None \/ TextLen(strip(Val(outcome))) <= MIN_TEXT_LENGTH

\* _parse_report found no text to parse and process() has returned False.
ExtractionEscalated ==
    /\ processor.pc \in {"return", "exited"}
    /\ Entered("_parse_report")
    /\ NoText
    /\ processor.success = Some(FALSE)

\* The backends are tried in the order PyPDF2, pdfplumber, PyMuPDF.
TriedInPriorityOrder ==
    /\ Len(page.attempts) <= Len(BACKENDS)
    /\ \A i \in 1..Len(page.attempts) : page.attempts[i].backend = BACKENDS[i]

\* A backend before the last is tried next exactly when the one before it
\* failed.
FailedFallsThrough ==
    \A i \in 1..(Len(BACKENDS) - 1) :
        i <= Len(page.attempts)
        => (BackendFailed(page.attempts[i].outcome) <=> i < Len(page.attempts))

\* The text of a backend that did not fail is the text returned.
AcceptableKept ==
    \A i \in 1..Len(page.attempts) :
        ~BackendFailed(page.attempts[i].outcome)
        => /\ i = Len(page.attempts)
           /\ page.text = Some(SanitizeText(Val(page.attempts[i].outcome)))

\* C24: the backends are tried in the order PyPDF2, pdfplumber, PyMuPDF; a
\* backend that raises or yields no more than 100 characters falls through
\* to the next, the text of a backend that did not fail is never replaced
\* by a later backend's, and the run is failed for want of text only if
\* every backend failed.
C24_BackendFallback ==
    page.text # None
    => /\ TriedInPriorityOrder
       /\ FailedFallsThrough
       /\ AcceptableKept
       /\ ExtractionEscalated
          => /\ Len(page.attempts) = Len(BACKENDS)
             /\ \A i \in 1..Len(page.attempts) :
                   BackendFailed(page.attempts[i].outcome)


\* ---------------------------------------------------- column width claims
RatEq(a, b) == a.n * b.d = b.n * a.d

\* The narrowest a column may be: 20pt.
MinColumnWidth == Rat(2000, 1)

\* Every column is at least 20pt wide.
WidthsFloored ==
    \A i \in 1..Len(Val(page.columns)) :
        ~RatLess(Val(page.columns)[i].width, MinColumnWidth)

\* A column before the last is as wide as the distance to the next column
\* less a 4pt gutter, and at least 20pt.
InnerWidthsToNextColumn ==
    \A i \in 1..(Len(Val(page.columns)) - 1) :
        RatEq(Val(page.columns)[i].width,
              RatMax(MinColumnWidth,
                     RatSub(RatSub(Val(page.columns)[i + 1].x, Val(page.columns)[i].x),
                            Rat(400, 1))))

\* The last column reaches from its x to the page's right margin.
LastWidthToRightMargin ==
    Val(page.columns) # <<>>
    => RatEq(Val(page.columns)[Len(Val(page.columns))].width,
             RatSub(Rat(PAGE_RECT.width - Val(page.margins).right, 1),
                    Val(page.columns)[Len(Val(page.columns))].x))

\* C25: every detected column is at least 20pt wide; a column before the
\* last is max(20, next column's x - its own x - 4) wide; and the last
\* column's width reaches from its x to the right margin of the page, the
\* page width less the right margin.
C25_ColumnWidths ==
    page.columns # None
    => /\ WidthsFloored
       /\ InnerWidthsToNextColumn
       /\ LastWidthToRightMargin


\* ------------------------------------------------------- renderer claims
\* The columns the layout the writer chose expects.
ExpectedColumns ==
    IF writer.layout = Some(DETAILED) THEN DETAILED_COLUMNS ELSE SIMPLE_COLUMNS

DefaultWidths ==
    IF writer.layout = Some(DETAILED) THEN DETAILED_WIDTHS ELSE SIMPLE_WIDTHS

\* The widths of the columns of the structure the writer was given.
RecoveredWidths ==
    [i \in 1..Len(Val(writer.structure).columns) |->
        Val(writer.structure).columns[i].width] \o <<>>

\* Layout preservation is on and as many columns were detected as the
\* layout has fields.
WidthsReusable ==
    /\ writer.preserve_layout
    /\ writer.structure # None
    /\ Len(Val(writer.structure).columns) = ExpectedColumns

\* C26: the renderer takes the column widths of the PageStructure as they
\* are exactly when layout preservation is on and the number of detected
\* columns is the layout's field count, 7 for the simple layout and 10 for
\* the detailed one; in every other case it takes the fixed default
\* widths; and the detailed layout is chosen only for template_type
\* DETAILED.
C26_WidthsReusedOnMatch ==
    writer.layout # None
    => /\ writer.layout = Some(DETAILED) <=> writer.template_type = Some(DETAILED)
       /\ writer.layout # Some(DETAILED) => writer.layout = Some(SIMPLE)
       /\ ExpectedColumns = (IF writer.layout = Some(DETAILED) THEN 10 ELSE 7)
       /\ Len(Val(writer.col_widths)) = ExpectedColumns
       /\ WidthsReusable => writer.col_widths = Some(RecoveredWidths)
       /\ ~WidthsReusable => writer.col_widths = Some(DefaultWidths)
       /\ (writer.col_widths = Some(DefaultWidths)) <=> ~WidthsReusable

\* A report of type DETAILED was written with layout preservation on over
\* a page of ten detected columns, whose widths differ from the defaults.
C26_Witness ==
    /\ writer.layout = Some(DETAILED)
    /\ writer.preserve_layout
    /\ writer.structure # None
    /\ Val(writer.structure).columns = Val(page.columns)
    /\ Len(Val(page.columns)) = 10
    /\ writer.col_widths = Some(RecoveredWidths)
    /\ RecoveredWidths # DETAILED_WIDTHS


\* ------------------------------------- generator claims: the break's range
\* The longest break the claim allows: 02:00.
LongestBreak == 2 * 60

\* C27: after _vary_break_time a record's break_time is not negative, a
\* jitter below 00:00 not wrapping to the day before, and not more than
\* 02:00, whatever the original break_time and the draw.
C27_BreakWithinTwoHours ==
    Returned =>
        \A i \in 1..Len(VariedValues) :
            (HasAttr(VariedValues[i], "break_time")
             /\ Parses(VariedValues[i].break_time))
            => /\ Minutes(VariedValues[i].break_time) >= 0
               /\ Minutes(VariedValues[i].break_time) <= LongestBreak


\* ------------------------------------- parser claims: the two grammars
\* What _merge_broken_lines returns for the parser's lines.
MergedLines == MergeBrokenLines(parser.lines)

\* The merged lines that hold a date and two or more HH:MM tokens.
AcceptedLines ==
    LET IsRow(line) == DateTokens(line) # <<>> /\ Len(TimeTokens(line)) >= 2
    IN  SelectSeq(MergedLines, IsRow)

\* The two grammars take a record from the same lines, with the same date,
\* start_time and end_time.
GrammarsAgree ==
    /\ Len(ParseSimpleRecords(MergedLines)) = Len(AcceptedLines)
    /\ Len(ParseDetailedRecords(MergedLines)) = Len(AcceptedLines)
    /\ \A i \in 1..Len(ParseSimpleRecords(MergedLines)) :
          /\ i <= Len(ParseDetailedRecords(MergedLines))
          /\ ParseSimpleRecords(MergedLines)[i].date
                = ParseDetailedRecords(MergedLines)[i].date
          /\ ParseSimpleRecords(MergedLines)[i].start_time
                = ParseDetailedRecords(MergedLines)[i].start_time
          /\ ParseSimpleRecords(MergedLines)[i].end_time
                = ParseDetailedRecords(MergedLines)[i].end_time

\* C28: the simple and the detailed grammar take a record from exactly the
\* same merged lines, those with a date and two or more HH:MM tokens, so
\* they give as many records with the same date, start_time and end_time;
\* hence for an UNKNOWN template the detailed grammar, run after the simple
\* one found nothing, finds nothing, and the records of an UNKNOWN template
\* are base records, not detailed ones.
C28_GrammarsAcceptSameLines ==
    /\ GrammarsAgree
    /\ (Stage(parser) >= 2 /\ tried = <<SIMPLE, DETAILED>>) => parser.records = <<>>
    /\ (Stage(parser) >= 2 /\ parser.metadata.template_type = UNKNOWN)
          => \A i \in 1..Len(parser.records) :
                 ~HasAttr(parser.records[i], "break_time")

\* A text classified UNKNOWN has been parsed into a base record from a
\* line of which the detailed grammar makes a record with a break.
C28_Witness ==
    /\ parser.pc = "done"
    /\ parser.metadata.template_type = UNKNOWN
    /\ Len(parser.records) >= 1
    /\ ~HasAttr(parser.records[1], "break_time")
    /\ ParseDetailedRecords(MergedLines)[1].break_time # None


\* ------------------------------------ generator claims: what is left alone
\* The fields of a record that no step of _vary_record assigns.
KEPT_FIELDS == {"date", "day_of_week", "notes", "location", "saturday"}

\* The fields of the metadata that _recalculate_totals assigns.
TOTALS_FIELDS == {"total_hours", "total_salary"}

\* C29: generate_variation leaves the date, day_of_week, notes, location
\* and saturday of every record as they were in the input, and every field
\* of the metadata but total_hours and total_salary; and when the report
\* has no hourly rate, or no records, total_salary keeps its parsed value.
C29_OtherFieldsKept ==
    Returned =>
        /\ Len(VariedValues) = Len(original.records)
        /\ \A i \in 1..Len(VariedValues) :
              /\ DOMAIN VariedValues[i] = DOMAIN original.records[i]
              /\ \A f \in KEPT_FIELDS \cap DOMAIN original.records[i] :
                    VariedValues[i][f] = original.records[i][f]
        /\ \A f \in DOMAIN original.metadata \ TOTALS_FIELDS :
              VariedMetadata[f] = original.metadata[f]
        /\ (original.metadata.hourly_rate = None \/ original.records = <<>>)
              => VariedMetadata.total_salary = original.metadata.total_salary

\* A detailed report without an hourly rate was varied: its total_hours
\* is recomputed and its parsed total_salary is kept.
C29_Witness ==
    /\ Returned
    /\ original.metadata.hourly_rate = None
    /\ original.metadata.total_salary = Some(5000)
    /\ VariedMetadata.total_salary = Some(5000)
    /\ VariedMetadata.total_hours # original.metadata.total_hours
    /\ Len(VariedValues) >= 1
    /\ HasAttr(VariedValues[1], "saturday")
    /\ VariedValues[1].saturday # None
    /\ VariedValues[1].start_time # original.records[1].start_time


\* ------------------------------------ generator claims: the end's range
\* The latest end _vary_record allows: 23:00.
LatestEnd == 23 * 60

============================================================================
